---- MODULE Spec2Model ----
(***************************************************************************)
(* Kiss Tracker backend: the SSE subscriber registry and broadcaster of    *)
(* server.js, the file-backed record store of database.js and the request  *)
(* handlers that sit on top of both.                                       *)
(***************************************************************************)
EXTENDS Integers, Sequences, FiniteSets, TLC

(***************************************************************************)
(* Bounds of the model.                                                    *)
(***************************************************************************)
\* response objects (GET .../events requests) ever created
MaxClients == 2
\* heartbeat ticks plus direct calls of broadcastToTracking
MaxEvents == 2

\* HTTP requests ever started
MaxRequests == 3
\* subscribers that connect while requests are served
MaxViewers == 1
\* callers of the loader's exported functions
MaxCallers == 2
\* store operations run on both stores
MaxOps == 4
\* the latest value of the clock
MaxTime == 2
\* requests ever started where requests overlap
MaxOverlap == 2

TrackingNumbers == {"T1", "T2"}
Handles == 1..MaxClients
NoTn == "none"

\* requests in flight at the same time
Slots == {1, 2}

\* what generateUpdateKey can return, and what a request can carry as ?key=
UpdateKeys == {"k1", "k2"}
NoKey == ""
RequestKeys == UpdateKeys \cup {NoKey}

\* const validStatuses = [...]
ValidStatuses == {"Preparing", "In Transit", "Out for Delivery", "Delivered", "Delayed"}

\* the bodies the model sends
StatusInputs == {"In Transit", "Delivered"}
LocationInputs == {"Paris", "Delivered"}
CreateInputs == {[kissProvider |-> "p1", destination |-> "d1", eta |-> "e1"]}

\* the event types a handler passes to broadcastToTracking
BroadcastTypes == {"status-change"}

VARIABLES
    sseClients,  \* Map trackingNumber -> Set of response objects (insertion ordered)
    res,         \* per response object: headersSent, writable, out (frames written)
    sub,         \* per response object: the trackingNumber its handler closed over
    heartbeat,   \* per response object: its setInterval timer is active
    reqClosed,   \* per response object: the 'close' event of its request has fired
    nres,        \* response objects created so far
    nev,         \* heartbeat ticks and direct broadcastToTracking calls so far
    last,        \* the direct broadcastToTracking call that produced the state (history)
    trackings,   \* trackings.json: trackingNumber -> record
    records,     \* track_records.json: trackingNumber -> list of location events
    now,         \* the clock read by Date.now() and new Date()
    nrec,        \* location events created so far (their ids are unique)
    reqs,        \* per slot: the HTTP request in flight, or the last one answered
    nreq,        \* requests started so far
    lastDelivered \* the identifier of the request answered last, when that was a
                 \* PUT status "Delivered" answered 200 that ran alone (history)

VARIABLES
    databaseUrl, \* process.env.DATABASE_URL is set
    db,          \* db_loader: let db = null, then the backend module bound to it
    dbType,      \* db_loader: let dbType = null, then 'postgresql' or 'json'
    initPc,      \* position of initializeDatabase(); dbPromise is resolved at "done"
    attempt,     \* how the attempt to use database_pg went (history)
    calls,       \* per caller: its call of an exported loader function
    pgTrackings, \* table trackings of database_pg: tracking_number -> row
    pgRecords,   \* table track_records of database_pg: its rows, in insertion order
    opRet,       \* the store operation run last on both stores, and what each returned
    nops,        \* store operations run on both stores so far
    fsError      \* fs.readFileSync (read) and fs.writeFileSync (write) throw at present

sseVars == <<sseClients, res, sub, heartbeat, reqClosed, nres>>
storeVars == <<trackings, records, now, nrec>>
reqVars == <<reqs, nreq, lastDelivered>>
loaderVars == <<databaseUrl, db, dbType, initPc, attempt, calls>>
pgVars == <<pgTrackings, pgRecords, opRet, nops>>
vars == <<sseVars, nev, last, storeVars, reqVars, loaderVars, pgVars, fsError>>

(***************************************************************************)
(* Helpers: JavaScript's Set (insertion ordered, no duplicates) and Map.   *)
(***************************************************************************)
Range(s) == {s[i] : i \in 1..Len(s)}

\* Set.prototype.add
SetAdd(s, x) == IF x \in Range(s) THEN s ELSE Append(s, x)

\* Set.prototype.delete
SetDelete(s, x) == SelectSeq(s, LAMBDA y : y # x)

\* Map.prototype.set
MapSet(m, k, v) == [x \in DOMAIN m \cup {k} |-> IF x = k THEN v ELSE m[x]]

\* Map.prototype.delete
MapDelete(m, k) == [x \in DOMAIN m \ {k} |-> m[x]]

\* the handles a registry holds under tn, as a set
RegisteredIn(reg, tn) == IF tn \in DOMAIN reg THEN Range(reg[tn]) ELSE {}

Registered(tn) == RegisteredIn(sseClients, tn)

AllRegistered == UNION {Registered(tn) : tn \in TrackingNumbers}

\* res.write(message)
ResWrite(rs, h, frame) == [rs EXCEPT ![h].out = Append(@, frame)]

(***************************************************************************)
(* broadcastToTracking (server.js).  thr is the set of response objects    *)
(* whose write throws during this call: the environment's choice.          *)
(***************************************************************************)
\* `event: ${eventType}\ndata: ${JSON.stringify(data)}\n\n`
Message(eventType, data) == <<eventType>> \o data

\* no try/catch around res.write: the error propagates out of forEach
RethrowWriteError(acc) == acc

\* catch (err) { console.log('SSE client disconnected') }: the error is swallowed
CatchWriteError(acc) == [acc EXCEPT !.threw = FALSE]

\* the guard with the wrong connective
ShouldWriteAnd(rs, h) == ~rs[h].headersSent /\ rs[h].writable

\* if (!res.headersSent || res.writable)
ShouldWrite(rs, h) == ~rs[h].headersSent \/ rs[h].writable

\* every registered response object, whatever its identifier
ClientsOfAny(reg, tn) ==
    LET ids == {t \in DOMAIN reg : t # tn}
        other == IF ids = {} THEN <<>> ELSE reg[CHOOSE t \in ids : TRUE]
    IN  reg[tn] \o other

\* the Set the frame is written to: sseClients.get(trackingNumber)
ClientsOf(reg, tn) == reg[tn]

RECURSIVE BroadcastLoop(_, _, _, _)
\* clients.forEach(res => { if (...) { try { res.write; activeClients.add } catch {} } })
BroadcastLoop(clients, thr, message, acc) ==
    IF clients = <<>> THEN acc
    ELSE LET h == Head(clients)
             rest == Tail(clients)
         IN  IF ShouldWrite(acc.res, h)
             THEN IF h \in thr
                  THEN LET a == CatchWriteError([acc EXCEPT !.threw = TRUE])
                       IN  IF a.threw THEN a
                           ELSE BroadcastLoop(rest, thr, message, a)
                  ELSE BroadcastLoop(rest, thr, message,
                           [acc EXCEPT !.res = ResWrite(@, h, message),
                                       !.active = SetAdd(@, h)])
             ELSE BroadcastLoop(rest, thr, message, acc)

\* the registry is left as it was
KeepAllClients(reg, tn, active) == reg

\* if (activeClients.size > 0) sseClients.set(...) else sseClients.delete(...)
UpdateActiveClients(reg, tn, active) ==
    IF Len(active) > 0 THEN MapSet(reg, tn, active) ELSE MapDelete(reg, tn)

\* function broadcastToTracking(trackingNumber, eventType, data)
broadcastToTracking(reg, rs, tn, eventType, data, thr) ==
    IF tn \notin DOMAIN reg
    THEN [sseClients |-> reg, res |-> rs, threw |-> FALSE]
    ELSE LET r == BroadcastLoop(ClientsOf(reg, tn), thr, Message(eventType, data),
                                [active |-> <<>>, res |-> rs, threw |-> FALSE])
         IN  IF r.threw
             THEN [sseClients |-> reg, res |-> r.res, threw |-> TRUE]
             ELSE [sseClients |-> UpdateActiveClients(reg, tn, r.active),
                   res |-> r.res, threw |-> FALSE]

(***************************************************************************)
(* The file-backed store (database.js): trackings.json maps a tracking     *)
(* number to its record, track_records.json maps it to its list of events. *)
(* Each operation reads the whole file, changes it and writes it back.     *)
(***************************************************************************)
\* the file system works
NoFsError == [read |-> FALSE, write |-> FALSE]

\* readJSONFile: JSON.parse(fs.readFileSync(...)); catch: log and return {}
readJSONFile(file) == IF fsError.read THEN <<>> ELSE file

\* writeJSONFile: fs.writeFileSync(...) and return true; catch: log and return false
writeJSONFile(file, data) ==
    [file |-> IF fsError.write THEN file ELSE data, ret |-> ~fsError.write]

\* createTracking: the record is stored under trackingNumber, whatever was there; the
\* result of the write is not looked at
createTracking(trk, tn, provider, destination, eta, updateKey, t) ==
    LET tracking == [id |-> t, tracking_number |-> tn, kiss_provider |-> provider,
                     destination |-> destination, eta |-> eta,
                     status |-> "Preparing", update_key |-> updateKey,
                     created_at |-> t, updated_at |-> t]
    IN  [trackings |-> writeJSONFile(trk, MapSet(readJSONFile(trk), tn, tracking)).file,
         ret |-> t]

\* a record is stored under tn in the parsed file trk
HasTracking(trk, tn) == tn \in DOMAIN trk

\* updateStatus: false when there is no record, else set status and updated_at and
\* return what writeJSONFile returns
updateStatus(trk, tn, newStatus, t) ==
    LET read == readJSONFile(trk)
    IN  IF ~HasTracking(read, tn)
        THEN [trackings |-> trk, ret |-> FALSE]
        ELSE LET w == writeJSONFile(trk, [read EXCEPT ![tn].status = newStatus,
                                                      ![tn].updated_at = t])
             IN  [trackings |-> w.file, ret |-> w.ret]

\* the list stored under tn in the parsed file rec, or []
ListOf(rec, tn) == IF tn \in DOMAIN rec THEN rec[tn] ELSE <<>>

\* getTrackRecords: records[trackingNumber] || []
getTrackRecords(rec, tn) == ListOf(readJSONFile(rec), tn)

\* addTrackRecord: push {id, tracking_id, location, timestamp} onto the list; the
\* result of the write is not looked at
addTrackRecord(rec, trackingId, tn, location, rid, t) ==
    LET read == readJSONFile(rec)
        record == [id |-> rid, tracking_id |-> trackingId,
                   location |-> location, timestamp |-> t]
    IN  [records |-> writeJSONFile(rec, MapSet(read, tn,
                                               Append(ListOf(read, tn), record))).file,
         ret |-> rid]

\* the filter keeps no event
KeepNothing(record) == FALSE

\* the filter with a misspelt label
KeepOnRemoveTypo(record) == record.location # "delivered"

\* record => record.location !== 'Delivered'
KeepOnRemove(record) == record.location # "Delivered"

\* the result does not depend on what was removed
removeDeliveryRecordsTrue(rec, tn) ==
    LET read == readJSONFile(rec)
    IN  IF tn \notin DOMAIN read
        THEN [records |-> rec, ret |-> FALSE]
        ELSE [records |-> writeJSONFile(rec, [read EXCEPT ![tn] =
                                                 SelectSeq(read[tn], KeepOnRemove)]).file,
              ret |-> TRUE]

\* removeDeliveryRecords: filter the list, write only when it got shorter, and return
\* whether it got shorter
removeDeliveryRecords(rec, tn) ==
    LET read == readJSONFile(rec)
    IN  IF tn \notin DOMAIN read
        THEN [records |-> rec, ret |-> FALSE]
        ELSE LET kept == SelectSeq(read[tn], KeepOnRemove)
                 removed == Len(read[tn]) # Len(kept)
             IN  [records |-> IF removed
                              THEN writeJSONFile(rec, [read EXCEPT ![tn] = kept]).file
                              ELSE rec,
                  ret |-> removed]

\* the key is not compared
verifyUpdateKeyAny(trk, tn, providedKey) == HasTracking(readJSONFile(trk), tn)

\* verifyUpdateKey: false without a record, else update_key === providedKey
verifyUpdateKey(trk, tn, providedKey) ==
    LET read == readJSONFile(trk)
    IN  IF ~HasTracking(read, tn) THEN FALSE ELSE read[tn].update_key = providedKey

(***************************************************************************)
(* The rest of the file-backed store, and what a caller can observe.       *)
(***************************************************************************)
\* a name every object returned by JSON.parse inherits from Object.prototype
InheritedNames == {"constructor"}

\* identifiers a read can be asked for
LookupNumbers == TrackingNumbers \cup InheritedNames

\* the fields of a record that do not depend on the backend's ids and clock
View(row) == [tracking_number |-> row.tracking_number,
              kiss_provider |-> row.kiss_provider,
              destination |-> row.destination, eta |-> row.eta,
              status |-> row.status, update_key |-> row.update_key]

NoView == [tracking_number |-> "", kiss_provider |-> "", destination |-> "",
           eta |-> "", status |-> "", update_key |-> ""]

\* the labels of a list of location events, in order
Labels(events) == [i \in 1..Len(events) |-> events[i].location]

\* the timestamps of a list of location events, in order
Timestamps(events) == [i \in 1..Len(events) |-> events[i].timestamp]

\* what an operation gave its caller: it threw, or it returned val
R(err, val) == [err |-> err, val |-> val]

\* getTracking: trackings[trackingNumber] || null.  The lookup finds an own property
\* (a record) or a property inherited from Object.prototype (not a record, but truthy).
getTracking(trk, tn) ==
    IF HasTracking(readJSONFile(trk), tn)
    THEN [found |-> TRUE, inherited |-> FALSE, view |-> View(trk[tn])]
    ELSE IF tn \in InheritedNames
    THEN [found |-> TRUE, inherited |-> TRUE, view |-> NoView]
    ELSE [found |-> FALSE, inherited |-> FALSE, view |-> NoView]

\* the new eta is set on every record of the file
updateEtaAll(trk, tn, newEta, t) ==
    LET read == readJSONFile(trk)
    IN  IF ~HasTracking(read, tn)
        THEN [trackings |-> trk, ret |-> FALSE]
        ELSE LET w == writeJSONFile(trk, [x \in DOMAIN read |->
                                             [read[x] EXCEPT !.eta = newEta,
                                                             !.updated_at = t]])
             IN  [trackings |-> w.file, ret |-> w.ret]

\* the result does not tell whether there is a record
updateEtaTrue(trk, tn, newEta, t) ==
    LET read == readJSONFile(trk)
    IN  IF ~HasTracking(read, tn)
        THEN [trackings |-> trk, ret |-> TRUE]
        ELSE [trackings |-> writeJSONFile(trk, [read EXCEPT ![tn].eta = newEta,
                                                            ![tn].updated_at = t]).file,
              ret |-> TRUE]

\* updateEta: false when there is no record, else set eta and updated_at and return
\* what writeJSONFile returns
updateEta(trk, tn, newEta, t) ==
    LET read == readJSONFile(trk)
    IN  IF ~HasTracking(read, tn)
        THEN [trackings |-> trk, ret |-> FALSE]
        ELSE LET w == writeJSONFile(trk, [read EXCEPT ![tn].eta = newEta,
                                                      ![tn].updated_at = t])
             IN  [trackings |-> w.file, ret |-> w.ret]

\* updateDestination: false when there is no record, else set destination and
\* updated_at and return what writeJSONFile returns
updateDestination(trk, tn, newDestination, t) ==
    LET read == readJSONFile(trk)
    IN  IF ~HasTracking(read, tn)
        THEN [trackings |-> trk, ret |-> FALSE]
        ELSE LET w == writeJSONFile(trk, [read EXCEPT ![tn].destination = newDestination,
                                                      ![tn].updated_at = t])
             IN  [trackings |-> w.file, ret |-> w.ret]

\* what getTrackingWithRecords gives when it returns null
NotFound == [found |-> FALSE, view |-> NoView, labels |-> <<>>, timestamps |-> <<>>]

RECURSIVE InsertByTimestamp(_, _)
\* e goes after the events of sorted that are not later than it
InsertByTimestamp(sorted, e) ==
    IF sorted = <<>> THEN <<e>>
    ELSE IF Head(sorted).timestamp <= e.timestamp
         THEN <<Head(sorted)>> \o InsertByTimestamp(Tail(sorted), e)
         ELSE <<e>> \o sorted

RECURSIVE SortByTimestamp(_)
\* records.sort((a, b) => new Date(a.timestamp) - new Date(b.timestamp)): stable
SortByTimestamp(events) ==
    IF events = <<>> THEN <<>>
    ELSE InsertByTimestamp(SortByTimestamp(SubSeq(events, 1, Len(events) - 1)),
                           events[Len(events)])

\* getTrackingWithRecords: null without a tracking, else the record with its events
\* sorted; records[trackingNumber] of an inherited name is not an array, and calling
\* its .sort throws
getTrackingWithRecords(trk, rec, tn) ==
    LET g == getTracking(trk, tn)
        sorted == SortByTimestamp(getTrackRecords(rec, tn))
    IN  IF ~g.found THEN R(FALSE, NotFound)
        ELSE IF tn \notin DOMAIN readJSONFile(rec) /\ tn \in InheritedNames
        THEN R(TRUE, NotFound)
        ELSE R(FALSE, [found |-> TRUE, view |-> g.view,
                       labels |-> Labels(sorted), timestamps |-> Timestamps(sorted)])

(***************************************************************************)
(* The relational store (database_pg.js): table trackings, with            *)
(* tracking_number UNIQUE, and table track_records.                        *)
(***************************************************************************)
\* createTracking: INSERT INTO trackings ...; a second row with the same
\* tracking_number violates the UNIQUE constraint and the query throws
pgCreateTracking(rows, tn, provider, destination, eta, updateKey, id, t) ==
    IF tn \in DOMAIN rows
    THEN [trackings |-> rows, err |-> TRUE, ret |-> id]
    ELSE [trackings |-> MapSet(rows, tn,
                          [id |-> id, tracking_number |-> tn, kiss_provider |-> provider,
                           destination |-> destination, eta |-> eta,
                           status |-> "Preparing", update_key |-> updateKey,
                           created_at |-> t, updated_at |-> t]),
          err |-> FALSE, ret |-> id]

\* getTracking: SELECT * FROM trackings WHERE tracking_number = $1; rows[0] || null
pgGetTracking(rows, tn) ==
    IF tn \in DOMAIN rows
    THEN [found |-> TRUE, inherited |-> FALSE, view |-> View(rows[tn])]
    ELSE [found |-> FALSE, inherited |-> FALSE, view |-> NoView]

\* updateEta: UPDATE trackings SET eta = $1, updated_at = now() ...; rowCount > 0
pgUpdateEta(rows, tn, newEta, t) ==
    IF tn \notin DOMAIN rows
    THEN [trackings |-> rows, ret |-> FALSE]
    ELSE [trackings |-> [rows EXCEPT ![tn].eta = newEta, ![tn].updated_at = t],
          ret |-> TRUE]

\* updateDestination: UPDATE trackings SET destination = $1, ...; rowCount > 0
pgUpdateDestination(rows, tn, newDestination, t) ==
    IF tn \notin DOMAIN rows
    THEN [trackings |-> rows, ret |-> FALSE]
    ELSE [trackings |-> [rows EXCEPT ![tn].destination = newDestination,
                                     ![tn].updated_at = t],
          ret |-> TRUE]

\* updateStatus: UPDATE trackings SET status = $1, ...; rowCount > 0
pgUpdateStatus(rows, tn, newStatus, t) ==
    IF tn \notin DOMAIN rows
    THEN [trackings |-> rows, ret |-> FALSE]
    ELSE [trackings |-> [rows EXCEPT ![tn].status = newStatus, ![tn].updated_at = t],
          ret |-> TRUE]

\* addTrackRecord: INSERT INTO track_records ... VALUES ($1,$2,$3,$4, now())
pgAddTrackRecord(recs, trackingId, tn, location, id, t) ==
    [records |-> Append(recs, [id |-> id, tracking_id |-> trackingId,
                               tracking_number |-> tn, location |-> location,
                               timestamp |-> t]),
     ret |-> id]

\* the rows of track_records WHERE tracking_number = $1, in insertion order
pgRowsOf(recs, tn) == SelectSeq(recs, LAMBDA row : row.tracking_number = tn)

\* ORDER BY timestamp ASC: the orders a query may return rows in; rows with equal
\* timestamps come in any order
pgOrderings(rows) ==
    LET n == Len(rows)
        perms == {p \in [1..n -> 1..n] : \A i, j \in 1..n : i # j => p[i] # p[j]}
    IN  {[i \in 1..n |-> rows[p[i]]] : p \in
            {q \in perms : \A i \in 1..n, j \in 1..n :
                              i < j => rows[q[i]].timestamp <= rows[q[j]].timestamp}}

\* getTrackRecords: SELECT * FROM track_records WHERE ... ORDER BY timestamp ASC
pgGetTrackRecords(recs, tn) == pgOrderings(pgRowsOf(recs, tn))

\* removeDeliveryRecords: DELETE FROM track_records WHERE tracking_number = $1 AND
\* location = 'Delivered'; rowCount > 0
pgRemoveDeliveryRecords(recs, tn) ==
    LET kept == SelectSeq(recs, LAMBDA row : ~(row.tracking_number = tn
                                               /\ row.location = "Delivered"))
    IN  [records |-> kept, ret |-> Len(kept) # Len(recs)]

\* getTrackingWithRecords: null without a row, else { ...tracking, records }, for the
\* order ordered the query returned the events in
pgGetTrackingWithRecords(rows, ordered, tn) ==
    LET g == pgGetTracking(rows, tn)
    IN  IF ~g.found THEN R(FALSE, NotFound)
        ELSE R(FALSE, [found |-> TRUE, view |-> g.view, labels |-> Labels(ordered),
                       timestamps |-> Timestamps(ordered)])

\* verifyUpdateKey: false without a row, else update_key === providedKey
pgVerifyUpdateKey(rows, tn, providedKey) ==
    IF tn \notin DOMAIN rows THEN FALSE ELSE rows[tn].update_key = providedKey

(***************************************************************************)
(* The same store operation run on the file-backed and on the relational   *)
(* store, which start empty and have seen the same operations.             *)
(***************************************************************************)
\* no store operation has run on both stores yet
NoRet == [op |-> "none", tn |-> NoTn, key |-> NoKey, had |-> FALSE,
          json |-> R(FALSE, FALSE), pg |-> R(FALSE, FALSE),
          jsonBefore |-> NoView, pgBefore |-> NoView]

\* what the operation op(tn, ..) gave on each store; had: tn had a record before
Ret(op, tn, key, json, pg) ==
    [op |-> op, tn |-> tn, key |-> key, had |-> tn \in DOMAIN trackings,
     json |-> json, pg |-> pg,
     jsonBefore |-> getTracking(trackings, tn).view,
     pgBefore |-> pgGetTracking(pgTrackings, tn).view]

\* the variables no store operation touches
serverVars == <<sseVars, nev, last, reqVars, loaderVars, fsError>>

\* one more store operation runs on both stores
CountOp ==
    /\ nops < MaxOps
    /\ nops' = nops + 1

\* time passes
Tick ==
    /\ now < MaxTime
    /\ now' = now + 1
    /\ UNCHANGED <<trackings, records, nrec, pgVars, serverVars>>

\* the system clock is set back (Date.now() and now() read the wall clock)
ClockSetBack ==
    /\ now > 1
    /\ now' = now - 1
    /\ UNCHANGED <<trackings, records, nrec, pgVars, serverVars>>

BothCreateTracking(tn, body, updateKey) ==
    /\ CountOp
    /\ LET j == createTracking(trackings, tn, body.kissProvider, body.destination,
                               body.eta, updateKey, now)
           p == pgCreateTracking(pgTrackings, tn, body.kissProvider, body.destination,
                                 body.eta, updateKey, nops + 1, now)
       IN  /\ trackings' = j.trackings
           /\ pgTrackings' = p.trackings
           /\ opRet' = Ret("createTracking", tn, updateKey,
                           R(FALSE, TRUE), R(p.err, ~p.err))
    /\ UNCHANGED <<records, now, nrec, pgRecords, serverVars>>

BothGetTracking(tn) ==
    /\ CountOp
    /\ opRet' = Ret("getTracking", tn, NoKey,
                    R(FALSE, getTracking(trackings, tn)),
                    R(FALSE, pgGetTracking(pgTrackings, tn)))
    /\ UNCHANGED <<storeVars, pgTrackings, pgRecords, serverVars>>

BothUpdateEta(tn, eta) ==
    /\ CountOp
    /\ LET j == updateEta(trackings, tn, eta, now)
           p == pgUpdateEta(pgTrackings, tn, eta, now)
       IN  /\ trackings' = j.trackings
           /\ pgTrackings' = p.trackings
           /\ opRet' = Ret("updateEta", tn, NoKey, R(FALSE, j.ret), R(FALSE, p.ret))
    /\ UNCHANGED <<records, now, nrec, pgRecords, serverVars>>

BothUpdateDestination(tn, destination) ==
    /\ CountOp
    /\ LET j == updateDestination(trackings, tn, destination, now)
           p == pgUpdateDestination(pgTrackings, tn, destination, now)
       IN  /\ trackings' = j.trackings
           /\ pgTrackings' = p.trackings
           /\ opRet' = Ret("updateDestination", tn, NoKey,
                           R(FALSE, j.ret), R(FALSE, p.ret))
    /\ UNCHANGED <<records, now, nrec, pgRecords, serverVars>>

BothUpdateStatus(tn, status) ==
    /\ CountOp
    /\ LET j == updateStatus(trackings, tn, status, now)
           p == pgUpdateStatus(pgTrackings, tn, status, now)
       IN  /\ trackings' = j.trackings
           /\ pgTrackings' = p.trackings
           /\ opRet' = Ret("updateStatus", tn, NoKey, R(FALSE, j.ret), R(FALSE, p.ret))
    /\ UNCHANGED <<records, now, nrec, pgRecords, serverVars>>

\* the caller passes the id of the record it has read from the same store
BothAddTrackRecord(tn, location) ==
    /\ CountOp
    /\ tn \in DOMAIN trackings
    /\ tn \in DOMAIN pgTrackings
    /\ LET j == addTrackRecord(records, trackings[tn].id, tn, location, nrec + 1, now)
           p == pgAddTrackRecord(pgRecords, pgTrackings[tn].id, tn, location,
                                 nrec + 1, now)
       IN  /\ records' = j.records
           /\ pgRecords' = p.records
           /\ nrec' = nrec + 1
           /\ opRet' = Ret("addTrackRecord", tn, NoKey, R(FALSE, TRUE), R(FALSE, TRUE))
    /\ UNCHANGED <<trackings, now, pgTrackings, serverVars>>

BothGetTrackRecords(tn) ==
    /\ CountOp
    /\ \E ordered \in pgGetTrackRecords(pgRecords, tn) :
          opRet' = Ret("getTrackRecords", tn, NoKey,
                       R(FALSE, [inherited |-> tn \notin DOMAIN records
                                               /\ tn \in InheritedNames,
                                 labels |-> Labels(getTrackRecords(records, tn)),
                                 timestamps |-> Timestamps(getTrackRecords(records, tn))]),
                       R(FALSE, [inherited |-> FALSE, labels |-> Labels(ordered),
                                 timestamps |-> Timestamps(ordered)]))
    /\ UNCHANGED <<storeVars, pgTrackings, pgRecords, serverVars>>

BothRemoveDeliveryRecords(tn) ==
    /\ CountOp
    /\ LET j == removeDeliveryRecords(records, tn)
           p == pgRemoveDeliveryRecords(pgRecords, tn)
       IN  /\ records' = j.records
           /\ pgRecords' = p.records
           /\ opRet' = Ret("removeDeliveryRecords", tn, NoKey,
                           R(FALSE, j.ret), R(FALSE, p.ret))
    /\ UNCHANGED <<trackings, now, nrec, pgTrackings, serverVars>>

BothGetTrackingWithRecords(tn) ==
    /\ CountOp
    /\ \E ordered \in pgGetTrackRecords(pgRecords, tn) :
          opRet' = Ret("getTrackingWithRecords", tn, NoKey,
                       getTrackingWithRecords(trackings, records, tn),
                       pgGetTrackingWithRecords(pgTrackings, ordered, tn))
    /\ UNCHANGED <<storeVars, pgTrackings, pgRecords, serverVars>>

BothVerifyUpdateKey(tn, providedKey) ==
    /\ CountOp
    /\ opRet' = Ret("verifyUpdateKey", tn, providedKey,
                    R(FALSE, verifyUpdateKey(trackings, tn, providedKey)),
                    R(FALSE, pgVerifyUpdateKey(pgTrackings, tn, providedKey)))
    /\ UNCHANGED <<storeVars, pgTrackings, pgRecords, serverVars>>

(***************************************************************************)
(* History: the operation that produced the current state.                 *)
(***************************************************************************)
NoOp == [op |-> "none", tn |-> NoTn, type |-> "", thr |-> {},
         before |-> <<>>, wr |-> {}, threw |-> FALSE]

\* the response objects of s that a broadcast would try to write to
WritableIn(s) == {h \in Range(s) : ShouldWrite(res, h)}

(***************************************************************************)
(* GET /api/tracking/:trackingNumber/events                                *)
(***************************************************************************)
\* the handler registers the response object of the first subscriber again
AddClientShared(reg, tn, h) ==
    MapSet(reg, tn, SetAdd(IF tn \in DOMAIN reg THEN reg[tn] ELSE <<>>, 1))

\* sseClients.get(trackingNumber).add(res), after creating the Set if absent
AddClient(reg, tn, h) ==
    MapSet(reg, tn, SetAdd(IF tn \in DOMAIN reg THEN reg[tn] ELSE <<>>, h))

\* the handler: writeHead, register, write 'connected', start the heartbeat
Subscribe(tn) ==
    /\ nres < MaxClients
    /\ LET h == nres + 1
       IN  /\ nres' = h
           /\ sseClients' = AddClient(sseClients, tn, h)
           /\ res' = ResWrite([res EXCEPT ![h].headersSent = TRUE], h,
                              Message("connected", <<tn>>))
           /\ sub' = [sub EXCEPT ![h] = tn]
           /\ heartbeat' = [heartbeat EXCEPT ![h] = TRUE]
           /\ last' = NoOp
    /\ UNCHANGED <<reqClosed, nev, storeVars, reqVars, loaderVars, pgVars, fsError>>

\* the emptied Set stays in the Map
KeepEmpty(reg, tn) == reg

\* if (clients.size === 0) sseClients.delete(trackingNumber)
DropIfEmpty(reg, tn) == IF Len(reg[tn]) = 0 THEN MapDelete(reg, tn) ELSE reg

\* req.on('close', ...): the first listener, which unregisters res
RemoveClient(reg, tn, h) ==
    IF tn \in DOMAIN reg
    THEN DropIfEmpty(MapSet(reg, tn, SetDelete(reg[tn], h)), tn)
    ELSE reg

\* the timer is left running
NoClearOnClose(hb, h) == hb

\* req.on('close', () => clearInterval(heartbeat)): the second listener
ClearOnClose(hb, h) == [hb EXCEPT ![h] = FALSE]

\* the 'close' event of the request: both listeners run, in order
Close(h) ==
    /\ sub[h] # NoTn
    /\ ~reqClosed[h]
    /\ reqClosed' = [reqClosed EXCEPT ![h] = TRUE]
    /\ sseClients' = RemoveClient(sseClients, sub[h], h)
    /\ heartbeat' = ClearOnClose(heartbeat, h)
    /\ last' = NoOp
    /\ UNCHANGED <<res, sub, nres, nev, storeVars, reqVars, loaderVars, pgVars, fsError>>

\* the socket under a response stops being writable (environment); res.writable is
\* read only by broadcastToTracking (registered handles) and by the heartbeat timer
BecomeUnwritable(h) ==
    /\ sub[h] # NoTn
    /\ h \in AllRegistered \/ heartbeat[h]
    /\ res[h].writable
    /\ res' = [res EXCEPT ![h].writable = FALSE]
    /\ last' = NoOp
    /\ UNCHANGED <<sseClients, sub, heartbeat, reqClosed, nres, nev, storeVars, reqVars, loaderVars, pgVars, fsError>>

\* the callback writes without looking at the handle
WriteAlways(rs, h) == TRUE

\* if (res.writable) in the setInterval callback
HeartbeatWritable(rs, h) == rs[h].writable

\* the setInterval callback: write a heartbeat frame, or cancel the timer
HeartbeatTick(h) ==
    /\ heartbeat[h]
    /\ nev < MaxEvents
    /\ nev' = nev + 1
    /\ IF HeartbeatWritable(res, h)
       THEN /\ res' = ResWrite(res, h, Message("heartbeat", <<>>))
            /\ UNCHANGED heartbeat
       ELSE /\ heartbeat' = [heartbeat EXCEPT ![h] = FALSE]
            /\ UNCHANGED res
    /\ last' = NoOp
    /\ UNCHANGED <<sseClients, sub, reqClosed, nres, storeVars, reqVars, loaderVars, pgVars, fsError>>

(***************************************************************************)
(* A handler calling broadcastToTracking(tn, eventType, data).             *)
(***************************************************************************)
SamplePayload(eventType) ==
    IF eventType = "status-change" THEN <<"In Transit">> ELSE <<"eta1">>

BroadcastCall(tn, eventType, thr) ==
    /\ nev < MaxEvents
    /\ nev' = nev + 1
    /\ thr \subseteq (IF tn \in DOMAIN sseClients THEN WritableIn(sseClients[tn]) ELSE {})
    /\ LET r == broadcastToTracking(sseClients, res, tn, eventType,
                                    SamplePayload(eventType), thr)
       IN  /\ sseClients' = r.sseClients
           /\ res' = r.res
           /\ last' = [op |-> "broadcast", tn |-> tn, type |-> eventType,
                       thr |-> thr,
                       before |-> IF tn \in DOMAIN sseClients
                                  THEN sseClients[tn] ELSE <<>>,
                       wr |-> IF tn \in DOMAIN sseClients
                              THEN WritableIn(sseClients[tn]) ELSE {},
                       threw |-> r.threw]
    /\ UNCHANGED <<sub, heartbeat, reqClosed, nres, storeVars, reqVars, loaderVars, pgVars, fsError>>

(***************************************************************************)
(* HTTP requests.  A handler runs up to its next await in one step; the    *)
(* store call it awaits executes in a step of its own (Db...), and the     *)
(* handler resumes with the result in a later step (After...).             *)
(***************************************************************************)
NoBody == [kissProvider |-> "", destination |-> "", eta |-> ""]

\* a response body without the fields of a record: { error: ... } or { message: ... }
NoResponse == [trackingNumber |-> "", kissProvider |-> "", destination |-> "",
               eta |-> "", status |-> "", shareLink |-> <<>>, updateLink |-> <<>>,
               trackRecords |-> <<>>]

IdleReq == [kind |-> "idle", tn |-> NoTn, key |-> NoKey, arg |-> "", body |-> NoBody,
            pc |-> "idle",
            ok |-> FALSE, err |-> FALSE, tid |-> 0, rid |-> 0, code |-> 0,
            \* history: what it broadcast, the events of tn when it started, the
            \* status PUT status found, whether it ran alone, and whether it started
            \* right after a lone PUT status "Delivered" for tn was answered 200
            bcasts |-> <<>>, events0 |-> <<>>, prevStatus |-> "",
            alone |-> TRUE, prev |-> FALSE,
            \* history: tn had a record when the request started
            existed |-> FALSE,
            \* what getTrackingWithRecords returned, and the body of the response
            got |-> NotFound, resp |-> NoResponse,
            \* history: the response objects whose write threw in its broadcasts
            writeErrors |-> {},
            \* history: a read or a write of a file failed in a store call of the request
            ioFailed |-> FALSE,
            \* history: the store mutations that returned success to the request
            committed |-> {}]

InFlight(r) == reqs[r].pc \notin {"idle", "done"}

\* a new request takes the lowest free slot
FreeSlot(r) == ~InFlight(r) /\ \A q \in Slots : q < r => InFlight(q)

\* res.status(code).json(...)
Answer(rq, code) == [rq EXCEPT !.pc = "done", !.code = code]

DeliveredAlone(rq) ==
    IF rq.pc = "done" /\ rq.code = 200 /\ rq.kind = "status" /\ rq.arg = "Delivered"
       /\ rq.alone
    THEN rq.tn ELSE NoTn

\* slot r moves to rq; the history of the request answered last follows
Become(r, rq) ==
    /\ reqs' = [reqs EXCEPT ![r] = rq]
    /\ lastDelivered' = IF rq.pc = "done" THEN DeliveredAlone(rq) ELSE lastDelivered
    /\ UNCHANGED nreq

\* slot r starts the request rq; the slots of answered requests are cleared
Begin(r, rq) ==
    /\ FreeSlot(r)
    /\ nreq < MaxRequests
    /\ nreq' = nreq + 1
    /\ LET busy == \E q \in Slots \ {r} : InFlight(q)
           new == [rq EXCEPT !.alone = ~busy,
                             !.prev = ~busy /\ lastDelivered = rq.tn,
                             !.events0 = ListOf(records, rq.tn),
                             !.existed = HasTracking(trackings, rq.tn)]
       IN  /\ reqs' = [q \in Slots |->
                          IF q = r THEN new
                          ELSE IF InFlight(q) THEN [reqs[q] EXCEPT !.alone = FALSE]
                          ELSE IdleReq]
           /\ lastDelivered' = IF new.pc = "done" THEN NoTn ELSE lastDelivered

\* !isNaN(new Date(eta).getTime())
IsValidDate(eta) == eta # "not-a-date"

\* app.post('/api/tracking'): validate, generate the number and the key, then
\* await db.createTracking(...)
StartCreate(r, body, tn, updateKey) ==
    /\ Begin(r, IF body.kissProvider = "" \/ body.destination = "" \/ body.eta = ""
                   \/ ~IsValidDate(body.eta)
                THEN Answer([IdleReq EXCEPT !.kind = "create"], 400)
                ELSE [IdleReq EXCEPT !.kind = "create", !.tn = tn, !.key = updateKey,
                                     !.body = body, !.pc = "call_createTracking"])
    /\ UNCHANGED <<sseVars, nev, last, storeVars, loaderVars, pgVars, fsError>>

\* generateShareLink: `${frontendUrl}/track/${trackingNumber}`
generateShareLink(tn) == <<"track", tn>>

\* generateUpdateLink: `${frontendUrl}/update/${trackingNumber}?key=${updateKey}`
generateUpdateLink(tn, updateKey) == <<"update", tn, updateKey>>

\* the body of the 201 response of POST /api/tracking
CreateResponse(rq) ==
    [trackingNumber |-> rq.tn, kissProvider |-> rq.body.kissProvider,
     destination |-> rq.body.destination, eta |-> rq.body.eta, status |-> "",
     shareLink |-> generateShareLink(rq.tn),
     updateLink |-> generateUpdateLink(rq.tn, rq.key), trackRecords |-> <<>>]

\* the store mutation op, when it returned success
Committed(op, success) == IF success THEN {op} ELSE {}

\* an update of the record of tn meets a failure: its read fails, or the read finds
\* the record and the write fails
WriteOrReadFailed(trk, tn) ==
    fsError.read \/ (HasTracking(trk, tn) /\ fsError.write)

DbCreateTracking(r) ==
    /\ reqs[r].pc = "call_createTracking"
    /\ LET b == reqs[r].body
           c == createTracking(trackings, reqs[r].tn, b.kissProvider, b.destination,
                               b.eta, reqs[r].key, now)
       IN  /\ trackings' = c.trackings
           /\ Become(r, [reqs[r] EXCEPT !.pc = "ret_createTracking", !.tid = c.ret,
                                        !.committed = @ \cup {"createTracking"},
                                        !.ioFailed = fsError.read \/ fsError.write])
    /\ UNCHANGED <<sseVars, nev, last, records, now, nrec, loaderVars, pgVars, fsError>>

AfterCreateTracking(r) ==
    /\ reqs[r].pc = "ret_createTracking"
    /\ Become(r, Answer([reqs[r] EXCEPT !.resp = CreateResponse(reqs[r])], 201))
    /\ UNCHANGED <<sseVars, nev, last, storeVars, loaderVars, pgVars, fsError>>

\* the routes behind the verifyUpdateKey middleware
AuthenticatedKinds == {"update", "location", "destination", "eta", "status"}

\* a missing key is passed on to the store like any other
KeyOptional(key) == FALSE

\* if (!updateKey)
MissingKey(key) == key = NoKey

\* the verifyUpdateKey middleware of the authenticated routes:
\* 401 without a key, else await db.verifyUpdateKey(trackingNumber, updateKey)
StartAuthenticated(r, kind, tn, key, arg) ==
    /\ Begin(r, IF MissingKey(key)
                THEN Answer([IdleReq EXCEPT !.kind = kind, !.tn = tn, !.arg = arg], 401)
                ELSE [IdleReq EXCEPT !.kind = kind, !.tn = tn, !.key = key, !.arg = arg,
                                     !.pc = "call_verifyUpdateKey"])
    /\ UNCHANGED <<sseVars, nev, last, storeVars, loaderVars, pgVars, fsError>>

DbVerifyUpdateKey(r) ==
    /\ reqs[r].pc = "call_verifyUpdateKey"
    /\ Become(r, [reqs[r] EXCEPT !.pc = "ret_verifyUpdateKey",
                     !.ok = verifyUpdateKey(trackings, reqs[r].tn, reqs[r].key),
                     !.ioFailed = fsError.read])
    /\ UNCHANGED <<sseVars, nev, last, storeVars, loaderVars, pgVars, fsError>>

\* 403 on a wrong key, else next(): the route handler up to its first await
AfterVerifyUpdateKey(r) ==
    /\ reqs[r].pc = "ret_verifyUpdateKey"
    /\ LET rq == reqs[r]
       IN  Become(r,
             IF ~rq.ok THEN Answer(rq, 403)
             ELSE IF rq.kind = "status"
             THEN IF rq.arg = "" \/ rq.arg \notin ValidStatuses
                  THEN Answer(rq, 400)
                  ELSE [rq EXCEPT !.pc = "call_updateStatus"]
             ELSE IF rq.kind = "eta"
             THEN IF rq.arg = "" \/ ~IsValidDate(rq.arg)
                  THEN Answer(rq, 400)
                  ELSE [rq EXCEPT !.pc = "call_updateEta"]
             ELSE IF rq.kind = "destination"
             THEN IF rq.arg = "" THEN Answer(rq, 400)
                  ELSE [rq EXCEPT !.pc = "call_updateDestination"]
             ELSE IF rq.kind = "update"
             THEN [rq EXCEPT !.pc = "call_getTrackingWithRecords"]
             ELSE IF rq.arg = "" THEN Answer(rq, 400)
                  ELSE [rq EXCEPT !.pc = "call_getTracking"])
    /\ UNCHANGED <<sseVars, nev, last, storeVars, loaderVars, pgVars, fsError>>

RECURSIVE EmitAll(_, _, _, _, _)
\* consecutive broadcastToTracking calls of one handler step; msgs[i] is
\* <<eventType, data>> and thrs[i] the writes that throw during call i.  A call that
\* throws ends the step: the handler's catch answers 500.
EmitAll(reg, rs, tn, msgs, thrs) ==
    IF msgs = <<>>
    THEN [sseClients |-> reg, res |-> rs, threw |-> FALSE, issued |-> <<>>,
          failed |-> {}]
    ELSE LET b == broadcastToTracking(reg, rs, tn, msgs[1][1], msgs[1][2], thrs[1])
             failed == {h \in RegisteredIn(reg, tn) : ShouldWrite(rs, h)} \cap thrs[1]
         IN  IF b.threw
             THEN [sseClients |-> b.sseClients, res |-> b.res, threw |-> TRUE,
                   issued |-> <<msgs[1]>>, failed |-> failed]
             ELSE LET e == EmitAll(b.sseClients, b.res, tn, Tail(msgs), Tail(thrs))
                  IN  [e EXCEPT !.issued = <<msgs[1]>> \o @,
                                !.failed = failed \cup @]

\* slot r broadcasts msgs and then answers code (500 when a broadcast throws)
BroadcastAndAnswer(r, msgs, code) ==
    \E thrs \in [1..Len(msgs) -> SUBSET Registered(reqs[r].tn)] :
        LET e == EmitAll(sseClients, res, reqs[r].tn, msgs, thrs)
        IN  /\ sseClients' = e.sseClients
            /\ res' = e.res
            /\ Become(r, Answer([reqs[r] EXCEPT !.bcasts = @ \o e.issued,
                                                !.writeErrors = e.failed],
                                IF e.threw THEN 500 ELSE code))

DbGetTracking(r) ==
    /\ reqs[r].pc = "call_getTracking"
    /\ LET read == readJSONFile(trackings)
       IN  Become(r, [reqs[r] EXCEPT !.pc = "ret_getTracking",
                         !.tid = IF HasTracking(read, reqs[r].tn)
                                 THEN read[reqs[r].tn].id ELSE 0,
                         !.ioFailed = @ \/ fsError.read])
    /\ UNCHANGED <<sseVars, nev, last, storeVars, loaderVars, pgVars, fsError>>

\* POST .../location: 404 without a record, else await db.addTrackRecord(...)
\* PUT .../status, "Delivered": if (tracking) await db.addTrackRecord(...),
\*                              else go on to the status-change broadcast
AfterGetTracking(r) ==
    /\ reqs[r].pc = "ret_getTracking"
    /\ LET rq == reqs[r]
       IN  IF rq.tid # 0
           THEN /\ Become(r, [rq EXCEPT !.pc = "call_addTrackRecord"])
                /\ UNCHANGED <<sseClients, res>>
           ELSE IF rq.kind = "location"
           THEN /\ Become(r, Answer(rq, 404))
                /\ UNCHANGED <<sseClients, res>>
           ELSE BroadcastAndAnswer(r, << <<"status-change", <<rq.arg>> >> >>, 200)
    /\ UNCHANGED <<sub, heartbeat, reqClosed, nres, nev, last, storeVars, loaderVars, pgVars, fsError>>

\* the label of the event a request appends
AppendedLocation(rq) == IF rq.kind = "status" THEN "Delivered" ELSE rq.arg

\* the list of the identifier is the one the file held when the request started
FileAtStart(rec, rq) == MapSet(rec, rq.tn, rq.events0)

\* addTrackRecord reads track_records.json in the synchronous call that writes it
FileAtCall(rec, rq) == rec

DbAddTrackRecord(r) ==
    /\ reqs[r].pc = "call_addTrackRecord"
    /\ LET rq == reqs[r]
           a == addTrackRecord(FileAtCall(records, rq), rq.tid, rq.tn, AppendedLocation(rq),
                               nrec + 1, now)
       IN  /\ records' = a.records
           /\ nrec' = nrec + 1
           /\ Become(r, [rq EXCEPT !.pc = "ret_addTrackRecord", !.rid = a.ret,
                                   !.committed = @ \cup {"addTrackRecord"},
                                   !.ioFailed = @ \/ fsError.read \/ fsError.write])
    /\ UNCHANGED <<sseVars, nev, last, trackings, now, loaderVars, pgVars, fsError>>

\* broadcast location-update {location, timestamp: new Date(), recordId};
\* PUT .../status then broadcasts status-change; answer 200
AfterAddTrackRecord(r) ==
    /\ reqs[r].pc = "ret_addTrackRecord"
    /\ LET rq == reqs[r]
           update == <<"location-update", <<AppendedLocation(rq), now, rq.rid>> >>
       IN  IF rq.kind = "status"
           THEN BroadcastAndAnswer(r, <<update, <<"status-change", <<rq.arg>> >> >>, 200)
           ELSE BroadcastAndAnswer(r, <<update>>, 200)
    /\ UNCHANGED <<sub, heartbeat, reqClosed, nres, nev, last, storeVars, loaderVars, pgVars, fsError>>

DbUpdateStatus(r) ==
    /\ reqs[r].pc = "call_updateStatus"
    /\ LET rq == reqs[r]
           u == updateStatus(trackings, rq.tn, rq.arg, now)
       IN  /\ trackings' = u.trackings
           /\ Become(r, [rq EXCEPT !.pc = "ret_updateStatus", !.ok = u.ret,
                            !.committed = @ \cup Committed("updateStatus", u.ret),
                            !.prevStatus = IF HasTracking(trackings, rq.tn)
                                           THEN trackings[rq.tn].status ELSE "",
                            !.ioFailed = @ \/ WriteOrReadFailed(trackings, rq.tn)])
    /\ UNCHANGED <<sseVars, nev, last, records, now, nrec, loaderVars, pgVars, fsError>>

\* the comparison with a misspelt label
IsDeliveredTypo(status) == status = "delivered"

\* if (status === 'Delivered')
IsDelivered(status) == status = "Delivered"

\* 404 when updateStatus returned false; "Delivered": await db.getTracking(...);
\* any other status: await db.removeDeliveryRecords(...)
AfterUpdateStatus(r) ==
    /\ reqs[r].pc = "ret_updateStatus"
    /\ LET rq == reqs[r]
       IN  Become(r, IF ~rq.ok THEN Answer(rq, 404)
                     ELSE IF IsDelivered(rq.arg)
                     THEN [rq EXCEPT !.pc = "call_getTracking"]
                     ELSE [rq EXCEPT !.pc = "call_removeDeliveryRecords"])
    /\ UNCHANGED <<sseVars, nev, last, storeVars, loaderVars, pgVars, fsError>>

DbRemoveDeliveryRecords(r) ==
    /\ reqs[r].pc = "call_removeDeliveryRecords"
    /\ LET rq == reqs[r]
           d == removeDeliveryRecords(records, rq.tn)
       IN  /\ records' = d.records
           /\ Become(r, [rq EXCEPT !.pc = "ret_removeDeliveryRecords", !.ok = d.ret,
                            !.committed = @ \cup Committed("removeDeliveryRecords", d.ret),
                            !.ioFailed = @ \/ fsError.read \/ (d.ret /\ fsError.write)])
    /\ UNCHANGED <<sseVars, nev, last, trackings, now, nrec, loaderVars, pgVars, fsError>>

\* the removal is announced whatever removeDeliveryRecords returned
RemovedAnyway(success) == TRUE

\* if (success), on what removeDeliveryRecords returned
Removed(success) == success

\* if (success) broadcast delivery-removed; then broadcast status-change; answer 200
AfterRemoveDeliveryRecords(r) ==
    /\ reqs[r].pc = "ret_removeDeliveryRecords"
    /\ LET rq == reqs[r]
           change == <<"status-change", <<rq.arg>> >>
       IN  IF Removed(rq.ok)
           THEN BroadcastAndAnswer(r, << <<"delivery-removed", <<rq.tn>> >>, change>>, 200)
           ELSE BroadcastAndAnswer(r, <<change>>, 200)
    /\ UNCHANGED <<sub, heartbeat, reqClosed, nres, nev, last, storeVars, loaderVars, pgVars, fsError>>

(***************************************************************************)
(* PUT .../eta, PUT .../destination, GET .../update and the public GET.    *)
(***************************************************************************)
DbUpdateEta(r) ==
    /\ reqs[r].pc = "call_updateEta"
    /\ LET rq == reqs[r]
           u == updateEta(trackings, rq.tn, rq.arg, now)
       IN  /\ trackings' = u.trackings
           /\ Become(r, [rq EXCEPT !.pc = "ret_updateEta", !.ok = u.ret,
                            !.committed = @ \cup Committed("updateEta", u.ret),
                            !.ioFailed = @ \/ WriteOrReadFailed(trackings, rq.tn)])
    /\ UNCHANGED <<sseVars, nev, last, records, now, nrec, loaderVars, pgVars, fsError>>

\* 404 when updateEta returned false, else broadcast eta-change and answer 200
AfterUpdateEta(r) ==
    /\ reqs[r].pc = "ret_updateEta"
    /\ LET rq == reqs[r]
       IN  IF ~rq.ok
           THEN /\ Become(r, Answer(rq, 404))
                /\ UNCHANGED <<sseClients, res>>
           ELSE BroadcastAndAnswer(r, << <<"eta-change", <<rq.arg>> >> >>, 200)
    /\ UNCHANGED <<sub, heartbeat, reqClosed, nres, nev, last, storeVars,
                   loaderVars, pgVars, fsError>>

DbUpdateDestination(r) ==
    /\ reqs[r].pc = "call_updateDestination"
    /\ LET rq == reqs[r]
           u == updateDestination(trackings, rq.tn, rq.arg, now)
       IN  /\ trackings' = u.trackings
           /\ Become(r, [rq EXCEPT !.pc = "ret_updateDestination", !.ok = u.ret,
                            !.committed = @ \cup Committed("updateDestination", u.ret),
                            !.ioFailed = @ \/ WriteOrReadFailed(trackings, rq.tn)])
    /\ UNCHANGED <<sseVars, nev, last, records, now, nrec, loaderVars, pgVars, fsError>>

\* 404 when updateDestination returned false, else broadcast destination-change and
\* answer 200
AfterUpdateDestination(r) ==
    /\ reqs[r].pc = "ret_updateDestination"
    /\ LET rq == reqs[r]
       IN  IF ~rq.ok
           THEN /\ Become(r, Answer(rq, 404))
                /\ UNCHANGED <<sseClients, res>>
           ELSE BroadcastAndAnswer(r, << <<"destination-change", <<rq.arg>> >> >>, 200)
    /\ UNCHANGED <<sub, heartbeat, reqClosed, nres, nev, last, storeVars,
                   loaderVars, pgVars, fsError>>

\* app.get('/api/tracking/:trackingNumber'): no middleware;
\* await db.getTrackingWithRecords(trackingNumber)
StartGet(r, tn) ==
    /\ Begin(r, [IdleReq EXCEPT !.kind = "get", !.tn = tn,
                                !.pc = "call_getTrackingWithRecords"])
    /\ UNCHANGED <<sseVars, nev, last, storeVars, loaderVars, pgVars, fsError>>

DbGetTrackingWithRecords(r) ==
    /\ reqs[r].pc = "call_getTrackingWithRecords"
    /\ LET g == getTrackingWithRecords(trackings, records, reqs[r].tn)
       IN  Become(r, [reqs[r] EXCEPT !.pc = "ret_getTrackingWithRecords",
                                     !.err = g.err, !.ok = g.val.found, !.got = g.val,
                                     !.ioFailed = @ \/ fsError.read])
    /\ UNCHANGED <<sseVars, nev, last, storeVars, loaderVars, pgVars, fsError>>

\* the fields both GET routes copy from what the store returned; trackRecords keeps
\* id, location and timestamp of each event (here: the location)
RecordFields(rq) ==
    [trackingNumber |-> rq.got.view.tracking_number,
     kissProvider |-> rq.got.view.kiss_provider,
     destination |-> rq.got.view.destination, eta |-> rq.got.view.eta,
     status |-> rq.got.view.status, shareLink |-> generateShareLink(rq.tn),
     updateLink |-> <<>>, trackRecords |-> rq.got.labels]

\* the public response carries the update link of the record
PublicResponseLinked(rq) ==
    [RecordFields(rq) EXCEPT
        !.updateLink = generateUpdateLink(rq.tn, rq.got.view.update_key)]

\* the body of the 200 response of GET /api/tracking/:trackingNumber
PublicResponse(rq) == RecordFields(rq)

\* the body of the 200 response of GET .../update: updateLink from req.query.key
UpdatePageResponse(rq) ==
    [RecordFields(rq) EXCEPT !.updateLink = generateUpdateLink(rq.tn, rq.key)]

\* catch: 500; 404 when the store returned null; else the record as JSON
AfterGetTrackingWithRecords(r) ==
    /\ reqs[r].pc = "ret_getTrackingWithRecords"
    /\ LET rq == reqs[r]
       IN  Become(r, IF rq.err THEN Answer(rq, 500)
                     ELSE IF ~rq.ok THEN Answer(rq, 404)
                     ELSE Answer([rq EXCEPT !.resp = IF rq.kind = "get"
                                                     THEN PublicResponse(rq)
                                                     ELSE UpdatePageResponse(rq)],
                                 200))
    /\ UNCHANGED <<sseVars, nev, last, storeVars, loaderVars, pgVars, fsError>>

(***************************************************************************)
(* The loader (db_loader.js): initializeDatabase selects the backend, and  *)
(* every exported function awaits dbPromise before it touches db.          *)
(***************************************************************************)
NoDb == "null"
Callers == 1..MaxCallers

\* the exported functions the model calls
WrappedMethods == {"getTracking", "updateStatus"}
Methods == WrappedMethods \cup {"getDatabaseInfo"}

NoAttempt == [load |-> "none", init |-> "none", probe |-> "none"]

IdleCall == [method |-> "", pc |-> "idle", backend |-> NoDb, type |-> NoDb,
             \* history: the call was issued before dbPromise was resolved
             early |-> FALSE]

Outcome(ok) == IF ok THEN "ok" ELSE "fail"

\* dbType of a backend module
TypeOf(backend) == IF backend = "database_pg" THEN "postgresql"
                   ELSE IF backend = "database" THEN "json" ELSE NoDb

\* dbPromise is resolved: initializeDatabase() has returned
DbPromiseResolved == initPc = "done"

\* no catch around the attempt: initializeDatabase() rejects, nothing is bound
NoFallBack ==
    /\ db' = db
    /\ dbType' = dbType
    /\ initPc' = "rejected"

\* db = require('./database'); dbType = 'json'; the function returns
FallBackToJson ==
    /\ db' = "database"
    /\ dbType' = "json"
    /\ initPc' = "done"

\* the rejection of the probe is not awaited: postgres is bound whatever it returns
AfterProbeIgnored(ok) == "database_pg"

\* await pgDb.getAllTrackings(); db = pgDb  /  catch (err) {...} db = require('./database')
AfterProbe(ok) == IF ok THEN "database_pg" ELSE "database"

\* const dbPromise = initializeDatabase(): the function up to its first await
LoadModule ==
    /\ initPc = "load"
    /\ IF ~databaseUrl
       THEN FallBackToJson /\ UNCHANGED attempt
       ELSE \E ok \in BOOLEAN :
               /\ attempt' = [attempt EXCEPT !.load = Outcome(ok)]
               /\ IF ok THEN initPc' = "init" /\ UNCHANGED <<db, dbType>>
                        ELSE FallBackToJson
    /\ UNCHANGED <<databaseUrl, calls, sseVars, nev, last, storeVars, reqVars, pgVars, fsError>>

\* await pgDb.init() returns or throws
PgInitReturns ==
    /\ initPc = "init"
    /\ \E ok \in BOOLEAN :
          /\ attempt' = [attempt EXCEPT !.init = Outcome(ok)]
          /\ IF ok THEN initPc' = "probe" /\ UNCHANGED <<db, dbType>>
                   ELSE FallBackToJson
    /\ UNCHANGED <<databaseUrl, calls, sseVars, nev, last, storeVars, reqVars, pgVars, fsError>>

\* await pgDb.getAllTrackings() returns or throws
ProbeReturns ==
    /\ initPc = "probe"
    /\ \E ok \in BOOLEAN :
          /\ attempt' = [attempt EXCEPT !.probe = Outcome(ok)]
          /\ db' = AfterProbe(ok)
          /\ dbType' = TypeOf(AfterProbe(ok))
          /\ initPc' = "done"
    /\ UNCHANGED <<databaseUrl, calls, sseVars, nev, last, storeVars, reqVars, pgVars, fsError>>

\* a caller invokes an exported function, which runs up to its await dbPromise
Call(c, method) ==
    /\ initPc # "load"
    /\ calls[c].pc = "idle"
    /\ calls' = [calls EXCEPT ![c] = [IdleCall EXCEPT !.method = method, !.pc = "await",
                                                      !.early = ~DbPromiseResolved]]
    /\ UNCHANGED <<databaseUrl, db, dbType, initPc, attempt,
                   sseVars, nev, last, storeVars, reqVars, pgVars, fsError>>

\* the wrapped function goes on without waiting for dbPromise
WrappedNoAwait == TRUE

\* createWrappedFunction: await dbPromise
WrappedMayResume == DbPromiseResolved

\* createWrappedFunction after the await: throw when db or the method is missing,
\* else call db[methodName](...args)
ResumeWrapped(c) ==
    /\ calls[c].pc = "await"
    /\ calls[c].method \in WrappedMethods
    /\ WrappedMayResume
    /\ calls' = [calls EXCEPT ![c] = IF db = NoDb
                                     THEN [@ EXCEPT !.pc = "failed"]
                                     ELSE [@ EXCEPT !.pc = "exec", !.backend = db]]
    /\ UNCHANGED <<databaseUrl, db, dbType, initPc, attempt,
                   sseVars, nev, last, storeVars, reqVars, pgVars, fsError>>

\* the backend method called by the wrapped function returns
ReturnWrapped(c) ==
    /\ calls[c].pc = "exec"
    /\ calls' = [calls EXCEPT ![c].pc = "returned"]
    /\ UNCHANGED <<databaseUrl, db, dbType, initPc, attempt,
                   sseVars, nev, last, storeVars, reqVars, pgVars, fsError>>

\* getDatabaseInfo goes on without waiting for dbPromise
InfoNoAwait == TRUE

\* getDatabaseInfo: await dbPromise
InfoMayResume == DbPromiseResolved

\* getDatabaseInfo after the await: return { type: dbType, connected: db !== null }
ResumeInfo(c) ==
    /\ calls[c].pc = "await"
    /\ calls[c].method = "getDatabaseInfo"
    /\ InfoMayResume
    /\ calls' = [calls EXCEPT ![c] = [@ EXCEPT !.pc = "returned", !.type = dbType]]
    /\ UNCHANGED <<databaseUrl, db, dbType, initPc, attempt,
                   sseVars, nev, last, storeVars, reqVars, pgVars, fsError>>

(***************************************************************************)
(* Initial state and specifications.                                       *)
(***************************************************************************)
\* the state of server.js and of both stores when the process starts
InitServer ==
    /\ sseClients = <<>>
    /\ res = [h \in Handles |-> [headersSent |-> FALSE, writable |-> TRUE, out |-> <<>>]]
    /\ sub = [h \in Handles |-> NoTn]
    /\ heartbeat = [h \in Handles |-> FALSE]
    /\ reqClosed = [h \in Handles |-> FALSE]
    /\ nres = 0
    /\ nev = 0
    /\ last = NoOp
    /\ trackings = <<>>
    /\ records = <<>>
    /\ now = 1
    /\ nrec = 0
    /\ reqs = [r \in Slots |-> IdleReq]
    /\ nreq = 0
    /\ lastDelivered = NoTn
    /\ pgTrackings = <<>>
    /\ pgRecords = <<>>
    /\ opRet = NoRet
    /\ nops = 0
    /\ attempt = NoAttempt
    /\ calls = [c \in Callers |-> IdleCall]
    /\ fsError = NoFsError

\* the server with the file-backed store bound and dbPromise resolved
Init ==
    /\ InitServer
    /\ databaseUrl = FALSE
    /\ db = "database"
    /\ dbType = "json"
    /\ initPc = "done"

\* the process at the moment db_loader is required
InitLoader ==
    /\ InitServer
    /\ databaseUrl \in BOOLEAN
    /\ db = NoDb
    /\ dbType = NoDb
    /\ initPc = "load"

NextLoader ==
    \/ LoadModule
    \/ PgInitReturns
    \/ ProbeReturns
    \/ \E c \in Callers, m \in Methods : Call(c, m)
    \/ \E c \in Callers : ResumeWrapped(c)
    \/ \E c \in Callers : ReturnWrapped(c)
    \/ \E c \in Callers : ResumeInfo(c)

SpecLoader == InitLoader /\ [][NextLoader]_vars

\* The loader when every pending promise settles: require, pgDb.init() and the probe
\* return or throw, and a continuation whose promise is resolved is run.
SpecLoaderLive ==
    /\ InitLoader
    /\ [][NextLoader]_vars
    /\ WF_vars(LoadModule)
    /\ WF_vars(PgInitReturns)
    /\ WF_vars(ProbeReturns)
    /\ \A c \in Callers : WF_vars(ResumeWrapped(c))

\* the inputs of the store operations
EtaInputs == {"e2"}
DestinationInputs == {"d2"}
GivenKeys == UpdateKeys \cup {"bad"}

\* the operations on records, run on both stores
NextStores ==
    \/ Tick
    \/ \E tn \in TrackingNumbers, body \in CreateInputs, k \in UpdateKeys :
          BothCreateTracking(tn, body, k)
    \/ \E tn \in LookupNumbers : BothGetTracking(tn)
    \/ \E tn \in TrackingNumbers, eta \in EtaInputs : BothUpdateEta(tn, eta)
    \/ \E tn \in TrackingNumbers, d \in DestinationInputs : BothUpdateDestination(tn, d)
    \/ \E tn \in TrackingNumbers, st \in StatusInputs : BothUpdateStatus(tn, st)
    \/ \E tn \in LookupNumbers, k \in GivenKeys : BothVerifyUpdateKey(tn, k)

SpecStores == Init /\ [][NextStores]_vars

\* the operations on location events, run on both stores, with a clock that can be
\* set back
NextEvents ==
    \/ Tick
    \/ ClockSetBack
    \/ \E tn \in TrackingNumbers, body \in CreateInputs :
          BothCreateTracking(tn, body, "k1")
    \/ \E tn \in TrackingNumbers, l \in LocationInputs : BothAddTrackRecord(tn, l)
    \/ \E tn \in LookupNumbers : BothGetTrackRecords(tn)
    \/ \E tn \in TrackingNumbers : BothRemoveDeliveryRecords(tn)
    \/ \E tn \in LookupNumbers : BothGetTrackingWithRecords(tn)

SpecEvents == Init /\ [][NextEvents]_vars

NextSSE ==
    \/ \E tn \in TrackingNumbers : Subscribe(tn)
    \/ \E h \in Handles : Close(h)
    \/ \E h \in Handles : BecomeUnwritable(h)
    \/ \E h \in Handles : HeartbeatTick(h)
    \/ \E tn \in TrackingNumbers, t \in BroadcastTypes, thr \in SUBSET Handles :
          BroadcastCall(tn, t, thr)

SpecSSE == Init /\ [][NextSSE]_vars

\* no request is in flight
Quiet == \A q \in Slots : ~InFlight(q)

\* the steps of the requests in flight
RequestStep(r) ==
    \/ DbCreateTracking(r)
    \/ AfterCreateTracking(r)
    \/ DbVerifyUpdateKey(r)
    \/ AfterVerifyUpdateKey(r)
    \/ DbGetTracking(r)
    \/ AfterGetTracking(r)
    \/ DbAddTrackRecord(r)
    \/ AfterAddTrackRecord(r)
    \/ DbUpdateStatus(r)
    \/ AfterUpdateStatus(r)
    \/ DbRemoveDeliveryRecords(r)
    \/ AfterRemoveDeliveryRecords(r)

\* Requests served one at a time, as the file-backed store serves them once its
\* operations are bound (every await resolves in the microtasks of the request's own
\* event-loop turn), while subscribers connect.
NextReq ==
    \/ \E tn \in TrackingNumbers : nres < MaxViewers /\ Subscribe(tn)
    \/ \E r \in Slots, body \in CreateInputs, tn \in TrackingNumbers, k \in UpdateKeys :
          Quiet /\ StartCreate(r, body, tn, k)
    \/ \E r \in Slots, tn \in TrackingNumbers, k \in RequestKeys, a \in LocationInputs :
          Quiet /\ StartAuthenticated(r, "location", tn, k, a)
    \/ \E r \in Slots, tn \in TrackingNumbers, k \in RequestKeys, a \in StatusInputs :
          Quiet /\ StartAuthenticated(r, "status", tn, k, a)
    \/ \E r \in Slots : RequestStep(r)

Spec == Init /\ [][NextReq]_vars

\* the steps of the other routes
ApiStep(r) ==
    \/ DbUpdateEta(r)
    \/ AfterUpdateEta(r)
    \/ DbUpdateDestination(r)
    \/ AfterUpdateDestination(r)
    \/ DbGetTrackingWithRecords(r)
    \/ AfterGetTrackingWithRecords(r)

\* the body an authenticated request of each kind carries
ApiInputs(kind) ==
    IF kind = "location" THEN {"Paris"}
    ELSE IF kind = "status" THEN {"In Transit"}
    ELSE IF kind = "eta" THEN EtaInputs
    ELSE DestinationInputs

\* Every route of the server, requests served one at a time, while subscribers connect.
NextApi ==
    \/ \E tn \in TrackingNumbers : nres < MaxViewers /\ Subscribe(tn)
    \/ \E r \in Slots, body \in CreateInputs, tn \in TrackingNumbers, k \in UpdateKeys :
          Quiet /\ StartCreate(r, body, tn, k)
    \/ \E r \in Slots, kind \in AuthenticatedKinds \ {"update"},
           tn \in TrackingNumbers, k \in RequestKeys :
          \E a \in ApiInputs(kind) : Quiet /\ StartAuthenticated(r, kind, tn, k, a)
    \/ \E r \in Slots : RequestStep(r)
    \/ \E r \in Slots, tn \in LookupNumbers, k \in RequestKeys :
          Quiet /\ StartAuthenticated(r, "update", tn, k, "")
    \/ \E r \in Slots, tn \in LookupNumbers : Quiet /\ StartGet(r, tn)
    \/ \E r \in Slots : ApiStep(r)

SpecApi == Init /\ [][NextApi]_vars

\* reads or writes of the data files start or stop failing (environment)
FsChanges(f) ==
    /\ f # fsError
    /\ fsError' = f
    /\ UNCHANGED <<sseVars, nev, last, storeVars, reqVars, loaderVars, pgVars>>

\* the steps of POST /api/tracking, PUT .../eta and GET /api/tracking/:trackingNumber
FaultStep(r) ==
    \/ DbCreateTracking(r)
    \/ AfterCreateTracking(r)
    \/ DbVerifyUpdateKey(r)
    \/ AfterVerifyUpdateKey(r)
    \/ DbUpdateEta(r)
    \/ AfterUpdateEta(r)
    \/ DbGetTrackingWithRecords(r)
    \/ AfterGetTrackingWithRecords(r)

\* Creation, PUT .../eta and the public GET on the file-backed store, requests served
\* one at a time, while reads and writes of the data files may fail.
NextFaults ==
    \/ \E f \in [read : BOOLEAN, write : BOOLEAN] : FsChanges(f)
    \/ \E r \in Slots, body \in CreateInputs, tn \in TrackingNumbers, k \in UpdateKeys :
          Quiet /\ StartCreate(r, body, tn, k)
    \/ \E r \in Slots, tn \in TrackingNumbers, k \in RequestKeys, a \in EtaInputs :
          Quiet /\ StartAuthenticated(r, "eta", tn, k, a)
    \/ \E r \in Slots, tn \in LookupNumbers : Quiet /\ StartGet(r, tn)
    \/ \E r \in Slots : FaultStep(r)

SpecFaults == Init /\ [][NextFaults]_vars

\* the steps of POST /api/tracking, POST .../location and PUT .../status "Delivered"
ClockStep(r) ==
    \/ DbCreateTracking(r)
    \/ AfterCreateTracking(r)
    \/ DbVerifyUpdateKey(r)
    \/ AfterVerifyUpdateKey(r)
    \/ DbUpdateStatus(r)
    \/ AfterUpdateStatus(r)
    \/ DbGetTracking(r)
    \/ AfterGetTracking(r)
    \/ DbAddTrackRecord(r)
    \/ AfterAddTrackRecord(r)

\* Creation and the two routes that append a location event, requests served one at a
\* time, while the clock advances and a subscriber connects.
NextClock ==
    \/ Tick
    \/ \E tn \in TrackingNumbers : nres < MaxViewers /\ Subscribe(tn)
    \/ \E r \in Slots, body \in CreateInputs, tn \in TrackingNumbers :
          Quiet /\ StartCreate(r, body, tn, "k1")
    \/ \E r \in Slots, tn \in TrackingNumbers :
          Quiet /\ StartAuthenticated(r, "location", tn, "k1", "Paris")
    \/ \E r \in Slots, tn \in TrackingNumbers :
          Quiet /\ StartAuthenticated(r, "status", tn, "k1", "Delivered")
    \/ \E r \in Slots : ClockStep(r)

SpecClock == Init /\ [][NextClock]_vars

\* trackings.json as an earlier run of the server left it: a record under each
\* identifier, created at two earlier instants with the same key, no location events
StoredAtStart ==
    LET b == [kissProvider |-> "p1", destination |-> "d1", eta |-> "e1"]
        first == createTracking(<<>>, "T1", b.kissProvider, b.destination, b.eta,
                                "k1", -2)
    IN  createTracking(first.trackings, "T2", b.kissProvider, b.destination, b.eta,
                       "k1", -1).trackings

\* the server started on the files of an earlier run, the file-backed store bound
InitConc ==
    /\ fsError = NoFsError
    /\ sseClients = <<>>
    /\ res = [h \in Handles |-> [headersSent |-> FALSE, writable |-> TRUE, out |-> <<>>]]
    /\ sub = [h \in Handles |-> NoTn]
    /\ heartbeat = [h \in Handles |-> FALSE]
    /\ reqClosed = [h \in Handles |-> FALSE]
    /\ nres = 0
    /\ nev = 0
    /\ last = NoOp
    /\ trackings = StoredAtStart
    /\ records = <<>>
    /\ now = 1
    /\ nrec = 0
    /\ reqs = [r \in Slots |-> IdleReq]
    /\ nreq = 0
    /\ lastDelivered = NoTn
    /\ pgTrackings = <<>>
    /\ pgRecords = <<>>
    /\ opRet = NoRet
    /\ nops = 0
    /\ attempt = NoAttempt
    /\ calls = [c \in Callers |-> IdleCall]
    /\ databaseUrl = FALSE
    /\ db = "database"
    /\ dbType = "json"
    /\ initPc = "done"

\* the steps of the four mutating routes behind the middleware
ConcStep(r) ==
    \/ DbVerifyUpdateKey(r)
    \/ AfterVerifyUpdateKey(r)
    \/ DbGetTracking(r)
    \/ AfterGetTracking(r)
    \/ DbAddTrackRecord(r)
    \/ AfterAddTrackRecord(r)
    \/ DbUpdateStatus(r)
    \/ AfterUpdateStatus(r)
    \/ DbRemoveDeliveryRecords(r)
    \/ AfterRemoveDeliveryRecords(r)
    \/ DbUpdateEta(r)
    \/ AfterUpdateEta(r)
    \/ DbUpdateDestination(r)
    \/ AfterUpdateDestination(r)

\* the body a mutating request of each kind carries
ConcInputs(kind) ==
    IF kind = "location" THEN {"Paris"}
    ELSE IF kind = "status" THEN StatusInputs
    ELSE IF kind = "eta" THEN EtaInputs \cup {"not-a-date"}
    ELSE DestinationInputs

\* Mutating requests in flight at the same time: a request suspended at an await lets
\* the steps of another request run (requests that wait for dbPromise resume in turn,
\* one store call each; on the relational store every store call is network I/O).
NextConc ==
    \/ \E r \in Slots, kind \in AuthenticatedKinds \ {"update"},
           tn \in TrackingNumbers, k \in RequestKeys :
          \E a \in ConcInputs(kind) :
             nreq < MaxOverlap /\ StartAuthenticated(r, kind, tn, k, a)
    \/ \E r \in Slots : ConcStep(r)

SpecConc == InitConc /\ [][NextConc]_vars

\* Mutating requests in flight at the same time, with subscribers that connected
\* before the first request.
NextWatched ==
    \/ \E tn \in TrackingNumbers : nreq = 0 /\ nres < MaxViewers /\ Subscribe(tn)
    \/ \E r \in Slots, kind \in AuthenticatedKinds \ {"update"}, tn \in TrackingNumbers :
          \E a \in ApiInputs(kind) :
             nreq < MaxOverlap /\ StartAuthenticated(r, kind, tn, "k1", a)
    \/ \E r \in Slots : ConcStep(r)

SpecWatched == InitConc /\ [][NextWatched]_vars

(***************************************************************************)
(* Properties of the subscriber registry and the broadcaster (SpecSSE).    *)
(***************************************************************************)
\* this step is a direct call broadcastToTracking(last'.tn, last'.type, ...)
IsBroadcastStep == nev' = nev + 1 /\ last'.op = "broadcast"

\* the frame of the call made in this step
FrameOfStep == <<last'.type>> \o SamplePayload(last'.type)

\* C1, as stated: in every interleaving of subscribe, close and broadcast, each handle
\* registered under T and writable when broadcastToTracking(T, ...) runs gets exactly
\* one frame of that broadcast, and a handle no longer registered gets none.
C1_AsStated ==
    [][IsBroadcastStep =>
         \A h \in Handles :
            res'[h].out = IF h \in Registered(last'.tn) /\ res[h].writable
                          THEN Append(res[h].out, FrameOfStep)
                          ELSE res[h].out]_vars

\* C1, amended: each handle registered under T, writable and whose write does not
\* throw gets exactly one frame of the broadcast; every other handle (not registered
\* under T any more, unwritable, or throwing) gets none.
C1_ExactlyOneFrame ==
    [][IsBroadcastStep =>
         \A h \in Handles :
            res'[h].out = IF /\ h \in Registered(last'.tn)
                             /\ res[h].writable
                             /\ h \notin last'.thr
                          THEN Append(res[h].out, FrameOfStep)
                          ELSE res[h].out]_vars

\* a broadcast for T wrote its frame to a registered handle while another handle of T
\* had left the registry by a remote close
C1_Witness ==
    /\ last.op = "broadcast"
    /\ \E h \in Range(last.before) :
          /\ h \in last.wr \ last.thr
          /\ Len(res[h].out) = 2
    /\ \E g \in Handles :
          reqClosed[g] /\ sub[g] = last.tn /\ g \notin Range(last.before)

\* C2: broadcastToTracking(T, ...) writes no frame to a handle registered under
\* another identifier and leaves the registry entry of every other identifier as it is.
C2_OtherIdentifiersUntouched ==
    [][IsBroadcastStep =>
         \A t \in TrackingNumbers \ {last'.tn} :
            /\ (t \in DOMAIN sseClients) = (t \in DOMAIN sseClients')
            /\ t \in DOMAIN sseClients => sseClients'[t] = sseClients[t]
            /\ \A h \in Registered(t) : res'[h] = res[h]]_vars

\* a broadcast for one identifier wrote a frame while another identifier had a
\* registered, writable handle
C2_Witness ==
    /\ last.op = "broadcast"
    /\ last.wr \ last.thr # {}
    /\ \E t \in TrackingNumbers \ {last.tn} :
          \E h \in Registered(t) : res[h].writable

\* C7: when a write throws during broadcastToTracking(T, ...), every other writable
\* handle registered under T still gets the frame, and the call returns normally.
C7_ThrowDoesNotAbort ==
    [][IsBroadcastStep /\ last'.thr # {} =>
         /\ ~last'.threw
         /\ \A h \in Registered(last'.tn) \ last'.thr :
               res[h].writable => res'[h].out = Append(res[h].out, FrameOfStep)]_vars

\* a write threw, and a handle later in the iteration order got the frame
C7_Witness ==
    /\ last.op = "broadcast"
    /\ \E i, j \in 1..Len(last.before) :
          /\ i < j
          /\ last.before[i] \in last.thr
          /\ last.before[j] \in last.wr \ last.thr
          /\ Len(res[last.before[j]].out) = 2

\* C8: after broadcastToTracking(T, ...) the entry of T holds exactly the handles that
\* were registered, were writable and whose write did not throw; a handle that is not
\* registered (so one that was dropped) gets no frame from a broadcast.
C8_RegistryAfterBroadcast ==
    [][IsBroadcastStep =>
         /\ RegisteredIn(sseClients', last'.tn) =
               {h \in Registered(last'.tn) : res[h].writable /\ h \notin last'.thr}
         /\ \A h \in Handles \ AllRegistered : res'[h] = res[h]]_vars

\* a broadcast ran for the identifier of a handle that an earlier broadcast had
\* dropped (created, never closed, not registered before the call)
C8_Witness ==
    /\ last.op = "broadcast"
    /\ \E h \in Handles :
          /\ sub[h] = last.tn
          /\ ~reqClosed[h]
          /\ h \notin Range(last.before)
    /\ \E g \in Range(last.before) : g \notin last.wr \/ g \in last.thr

\* C9: the registry never maps an identifier to an empty set.
C9_NoEmptyEntry == \A t \in DOMAIN sseClients : Len(sseClients[t]) > 0

\* the last handle of one identifier left by a remote close, the last handle of
\* another one was dropped by a broadcast, and both entries are gone
C9_Witness ==
    \E h, g \in Handles :
       /\ reqClosed[h] /\ sub[h] \notin DOMAIN sseClients
       /\ sub[g] \in TrackingNumbers /\ ~reqClosed[g]
       /\ sub[g] \notin DOMAIN sseClients

\* this step is a tick of a heartbeat timer
IsTickStep == nev' = nev + 1 /\ last'.op = "none"

\* the last frame written to h is a heartbeat, written in this step
HeartbeatWritten(h) ==
    /\ Len(res'[h].out) > Len(res[h].out)
    /\ res'[h].out[Len(res'[h].out)] = Message("heartbeat", <<>>)

\* C30: a heartbeat frame is written to a handle only in a tick of its active timer at
\* which the handle is writable; a tick at which the handle is not writable writes
\* nothing and cancels the timer; a cancelled timer is never started again, so no later
\* heartbeat is written to that handle.
C30_HeartbeatOnlyWhileWritable ==
    [][/\ \A h \in Handles :
            /\ HeartbeatWritten(h) => IsTickStep /\ heartbeat[h] /\ res[h].writable
            /\ sub[h] # NoTn /\ ~heartbeat[h] => ~heartbeat'[h]
       /\ IsTickStep =>
            \E h \in Handles :
               /\ heartbeat[h]
               /\ IF res[h].writable
                  THEN /\ res' = ResWrite(res, h, Message("heartbeat", <<>>))
                       /\ heartbeat' = heartbeat
                  ELSE /\ res' = res
                       /\ heartbeat' = [heartbeat EXCEPT ![h] = FALSE]]_vars

\* a handle received a heartbeat, stopped being writable, and the next tick of its
\* timer cancelled the timer while its request is still open
C30_Witness ==
    \E h \in Handles :
       /\ sub[h] # NoTn
       /\ ~reqClosed[h]
       /\ ~res[h].writable
       /\ ~heartbeat[h]
       /\ nev = 2
       /\ \E i \in 1..Len(res[h].out) : res[h].out[i] = Message("heartbeat", <<>>)

\* C32, as stated: in every reachable state a handle that has subscribed and is not in
\* the registry (after a remote close, or after a broadcast left it out) has no active
\* heartbeat timer.
C32_AsStated ==
    \A h \in Handles :
       sub[h] # NoTn /\ h \notin AllRegistered => ~heartbeat[h]

\* C10: once the 'close' event of a subscriber's request has fired, its handle is not
\* registered, its heartbeat timer is not active, and nothing more is written to it.
C10_NothingAfterClose ==
    [][\A h \in Handles :
          /\ reqClosed'[h] => h \notin AllRegistered' /\ ~heartbeat'[h]
          /\ reqClosed[h] => res'[h].out = res[h].out]_vars

\* a broadcast for its identifier ran after a handle was closed while it was still
\* writable
C10_Witness ==
    /\ last.op = "broadcast"
    /\ \E h \in Handles :
          /\ reqClosed[h]
          /\ res[h].writable
          /\ sub[h] = last.tn
          /\ last.wr # {}

\* C11: a handle that has left the registry is never a member of an entry again: a step
\* adds a handle to an entry only if it is the GET .../events handler registering the
\* response object it has just been given, one that was never registered before.
C11_NoResurrection ==
    [][\A t \in TrackingNumbers :
          \A h \in RegisteredIn(sseClients', t) \ Registered(t) :
             /\ nres' = nres + 1
             /\ h = nres'
             /\ sub[h] = NoTn
             /\ sub'[h] = t]_vars

\* a handle was evicted by a broadcast, its connection is still open, and a later
\* subscriber of the same identifier is registered while it is not
C11_Witness ==
    \E h, g \in Handles :
       /\ sub[h] \in TrackingNumbers
       /\ ~reqClosed[h]
       /\ h \notin AllRegistered
       /\ h < g
       /\ sub[g] = sub[h]
       /\ g \in Registered(sub[g])

(***************************************************************************)
(* Properties of the loader (SpecLoader).                                  *)
(***************************************************************************)
\* C12: no exported store operation gets past the gate before backend selection has
\* completed: whenever a call has left its await (its backend method is executing or
\* has returned, or the call was rejected), dbPromise is resolved and a backend is
\* bound, and the method executes on the bound backend; also for calls issued early.
C12_GateBeforeBackend ==
    \A c \in Callers :
       calls[c].method \in WrappedMethods /\ calls[c].pc \notin {"idle", "await"} =>
          /\ DbPromiseResolved
          /\ db # NoDb
          /\ calls[c].pc = "exec" => calls[c].backend = db

\* a backend method is executing for a call that was issued while the relational
\* backend was still being initialized
C12_Witness ==
    \E c \in Callers :
       /\ calls[c].pc = "exec"
       /\ calls[c].early
       /\ attempt.load = "ok"

\* C35: every store call that is waiting at the gate, issued before selection completed
\* or after, is eventually executed, on the backend that selection has bound, also when
\* the attempt to use the relational backend fails.
C35_EarlyCallsExecuted ==
    \A c \in Callers :
       (calls[c].pc = "await" /\ calls[c].method \in WrappedMethods)
          ~> (calls[c].pc = "exec" /\ DbPromiseResolved /\ calls[c].backend = db)

\* a call issued while pgDb.init() was pending is executing on the file-backed backend
\* after pgDb.init() threw
C35_Witness ==
    \E c \in Callers :
       /\ calls[c].early
       /\ calls[c].method \in WrappedMethods
       /\ calls[c].pc = "exec"
       /\ attempt.init = "fail"
       /\ calls[c].backend = "database"

\* C13: after selection the operations are bound to the relational backend iff
\* DATABASE_URL is set and module load, schema initialization and probe all succeeded;
\* in every other case they are bound to the file-backed backend, and no call is
\* rejected.
C13_SelectionAndFallback ==
    /\ DbPromiseResolved =>
          LET pg == /\ databaseUrl
                    /\ attempt = [load |-> "ok", init |-> "ok", probe |-> "ok"]
          IN  /\ db = IF pg THEN "database_pg" ELSE "database"
              /\ dbType = IF pg THEN "postgresql" ELSE "json"
    /\ \A c \in Callers : calls[c].pc # "failed"

\* the probe failed, and a call issued during the attempt has executed on the
\* file-backed backend and returned
C13_Witness ==
    /\ attempt.probe = "fail"
    /\ \E c \in Callers :
          /\ calls[c].early
          /\ calls[c].pc = "returned"
          /\ calls[c].backend = "database"

\* C14: getDatabaseInfo resolves only once dbPromise is resolved, the type it reports is
\* the type of the backend every store operation executes on, and once dbPromise is
\* resolved the bound backend never changes.
C14_InfoReportsBackend ==
    [][/\ DbPromiseResolved => db' = db /\ dbType' = dbType
       /\ \A c \in Callers :
             calls'[c].method = "getDatabaseInfo" /\ calls'[c].pc = "returned" =>
                /\ DbPromiseResolved'
                /\ calls'[c].type \in {"postgresql", "json"}
                /\ \A d \in Callers :
                      calls'[d].pc \in {"exec", "returned"}
                      /\ calls'[d].method \in WrappedMethods
                      => TypeOf(calls'[d].backend) = calls'[c].type]_vars

\* getDatabaseInfo, called during the attempt, reported 'postgresql', and a store
\* operation has executed on the relational backend
C14_Witness ==
    \E c, d \in Callers :
       /\ calls[c].method = "getDatabaseInfo"
       /\ calls[c].early
       /\ calls[c].pc = "returned"
       /\ calls[c].type = "postgresql"
       /\ calls[d].pc = "returned"
       /\ calls[d].backend = "database_pg"

(***************************************************************************)
(* Properties of the two stores (SpecStores).                              *)
(***************************************************************************)
\* both stores hold the same records and, per identifier, the same event labels
SameContents ==
    /\ DOMAIN trackings = DOMAIN pgTrackings
    /\ \A tn \in DOMAIN trackings : View(trackings[tn]) = View(pgTrackings[tn])
    /\ \A tn \in TrackingNumbers :
          Labels(ListOf(records, tn)) = Labels(pgRowsOf(pgRecords, tn))

\* C15, as stated: after every sequence of store operations, the operation run last
\* gave the same observable result on the file-backed and on the relational store, and
\* both stores hold the same records and events.
C15_AsStated ==
    /\ opRet.json = opRet.pg
    /\ SameContents

\* C16: verifyUpdateKey(T, k) returns true iff a record exists under T and k equals the
\* credential stored in it, and it never throws; on either store.
C16_VerifyUpdateKey ==
    opRet.op = "verifyUpdateKey" =>
       /\ ~opRet.json.err
       /\ ~opRet.pg.err
       /\ opRet.json.val = (/\ opRet.tn \in DOMAIN trackings
                            /\ trackings[opRet.tn].update_key = opRet.key)
       /\ opRet.pg.val = (/\ opRet.tn \in DOMAIN pgTrackings
                          /\ pgTrackings[opRet.tn].update_key = opRet.key)

\* verifyUpdateKey returned true on both stores for a record, with the credential of
\* the record, while another credential exists in the model
C16_Witness ==
    /\ opRet.op = "verifyUpdateKey"
    /\ opRet.json.val
    /\ opRet.pg.val
    /\ opRet.key \in UpdateKeys

\* no element of a list of timestamps is earlier than the one before it
NonDecreasing(times) == \A i, j \in 1..Len(times) : i < j => times[i] <= times[j]

\* C22, as stated: the events getTrackRecords returns, and the records of what
\* getTrackingWithRecords returns, are in non-decreasing timestamp order on either
\* store, in whatever order they were appended.
C22_AsStated ==
    opRet.op \in {"getTrackRecords", "getTrackingWithRecords"} =>
       /\ NonDecreasing(opRet.json.val.timestamps)
       /\ NonDecreasing(opRet.pg.val.timestamps)

\* the part of C22 that holds: the records of getTrackingWithRecords on either store,
\* and the events of getTrackRecords on the relational store
C22_SortedWhereSorted ==
    /\ opRet.op = "getTrackingWithRecords" =>
          /\ NonDecreasing(opRet.json.val.timestamps)
          /\ NonDecreasing(opRet.pg.val.timestamps)
    /\ opRet.op = "getTrackRecords" => NonDecreasing(opRet.pg.val.timestamps)

\* C20, as stated: createTracking for an identifier that already has a record throws
\* on both stores and leaves the existing record as it was.
C20_AsStated ==
    opRet.op = "createTracking" /\ opRet.had =>
       /\ opRet.json.err
       /\ opRet.pg.err
       /\ View(trackings[opRet.tn]) = opRet.jsonBefore
       /\ View(pgTrackings[opRet.tn]) = opRet.pgBefore

(***************************************************************************)
(* Properties of the routes (SpecApi).                                     *)
(***************************************************************************)
\* C17: on every authenticated route a request without a key is answered 401 and a
\* request whose key differs from the credential of the record is answered 403; no step
\* of such a request changes a record, a location event or the registry, writes a frame
\* or issues a broadcast.
C17_RejectedWithoutEffect ==
    [][\A r \in Slots :
          LET rq == reqs'[r]
          IN  /\ reqs'[r] # reqs[r]
              /\ rq.kind \in AuthenticatedKinds
              /\ \/ rq.key = NoKey
                 \/ /\ rq.tn \in DOMAIN trackings
                    /\ rq.key # trackings[rq.tn].update_key
              => /\ UNCHANGED <<trackings, records, sseClients, res>>
                 /\ rq.bcasts = <<>>
                 /\ rq.pc = "done" => rq.code = IF rq.key = NoKey THEN 401 ELSE 403]_vars

\* a PUT .../eta with the credential of another record was answered 403 while the
\* identifier had a record and a subscriber
C17_Witness ==
    \E r \in Slots :
       /\ reqs[r].pc = "done"
       /\ reqs[r].kind = "eta"
       /\ reqs[r].code = 403
       /\ reqs[r].key \in UpdateKeys
       /\ reqs[r].tn \in DOMAIN trackings
       /\ Registered(reqs[r].tn) # {}

\* C18, as stated: a public GET, or a GET .../update that carries a key, for an
\* identifier that has no record is answered 404 (so not 500).
C18_AsStated ==
    \A r \in Slots :
       LET rq == reqs[r]
       IN  /\ rq.pc = "done"
           /\ rq.kind = "get" \/ (rq.kind = "update" /\ rq.key # NoKey)
           /\ rq.tn \notin DOMAIN trackings
           => rq.code = 404

\* C19, as stated: once a record exists under an identifier, no step of a create,
\* location, eta, destination or status request changes its credential or its
\* identifier.
C19_AsStated ==
    [][\A tn \in DOMAIN trackings :
          /\ tn \in DOMAIN trackings'
          /\ trackings'[tn].update_key = trackings[tn].update_key
          /\ trackings'[tn].tracking_number = trackings[tn].tracking_number]_vars

\* the strings of a response body outside its update link
ResponseStrings(resp) ==
    {resp.trackingNumber, resp.kissProvider, resp.destination, resp.eta, resp.status}
       \cup Range(resp.shareLink) \cup Range(resp.trackRecords)

\* the strings of an SSE frame (a location-update also carries a time and an id)
FrameStrings(frame) ==
    {frame[i] : i \in IF frame[1] = "location-update" THEN 1..2 ELSE 1..Len(frame)}

\* C26: no credential occurs in a response body outside its update link, in a share
\* link or in an SSE frame; only the responses of POST /api/tracking and of GET
\* .../update carry an update link, with the key of the request; the public response
\* is the same whatever the credential of the record is.
C26_CredentialOnlyInUpdateLink ==
    /\ \A r \in Slots :
          LET rq == reqs[r]
          IN  rq.pc = "done" =>
                /\ ResponseStrings(rq.resp) \cap UpdateKeys = {}
                /\ rq.resp.updateLink # <<>> =>
                      /\ rq.kind \in {"create", "update"}
                      /\ rq.code \in {200, 201}
                      /\ rq.resp.updateLink = generateUpdateLink(rq.tn, rq.key)
                /\ rq.kind = "get" /\ rq.code = 200 =>
                      \A k \in UpdateKeys :
                         rq.resp = PublicResponse([rq EXCEPT !.got.view.update_key = k])
                /\ \A i \in 1..Len(rq.bcasts) :
                      FrameStrings(Message(rq.bcasts[i][1], rq.bcasts[i][2]))
                         \cap UpdateKeys = {}
    /\ \A h \in Handles :
          \A i \in 1..Len(res[h].out) : FrameStrings(res[h].out[i]) \cap UpdateKeys = {}

\* a public GET was answered 200 with the events of a record that has a credential,
\* while a subscriber of the identifier had received a broadcast frame
C26_Witness ==
    \E r \in Slots :
       /\ reqs[r].pc = "done"
       /\ reqs[r].kind = "get"
       /\ reqs[r].code = 200
       /\ reqs[r].resp.trackRecords # <<>>
       /\ reqs[r].got.view.update_key \in UpdateKeys
       /\ \E h \in Registered(reqs[r].tn) : Len(res[h].out) > 1

\* C27: a write to a subscriber that throws during a broadcast of a request changes
\* neither the answer nor the store: the request is answered 200, the step changes no
\* record and no event, and the field the request has set keeps its new value.
C27_WriteFailureNotSurfaced ==
    [][\A r \in Slots :
          LET rq == reqs'[r]
          IN  rq.writeErrors # {} /\ reqs[r].writeErrors = {} =>
                /\ rq.pc = "done"
                /\ rq.code = 200
                /\ UNCHANGED <<trackings, records>>
                /\ rq.kind = "eta" => trackings[rq.tn].eta = rq.arg
                /\ rq.kind = "destination" => trackings[rq.tn].destination = rq.arg
                /\ rq.kind = "status" => trackings[rq.tn].status = rq.arg
                /\ rq.kind = "location" =>
                      /\ ListOf(records, rq.tn) # <<>>
                      /\ records[rq.tn][Len(records[rq.tn])].id = rq.rid]_vars

\* a PUT .../eta was answered 200 although the write to a subscriber threw
C27_Witness ==
    \E r \in Slots :
       /\ reqs[r].pc = "done"
       /\ reqs[r].kind = "eta"
       /\ reqs[r].code = 200
       /\ reqs[r].writeErrors # {}
       /\ trackings[reqs[r].tn].eta = reqs[r].arg

\* C21, as stated: the tracking number a POST /api/tracking answered 201 returns is
\* different from every tracking number returned by an earlier successful creation
\* (records come from successful creations only, so: it had no record before).
C21_AsStated ==
    \A r \in Slots :
       reqs[r].pc = "done" /\ reqs[r].kind = "create" /\ reqs[r].code = 201
          => ~reqs[r].existed

(***************************************************************************)
(* Properties of PUT /api/tracking/:trackingNumber/status (Spec).          *)
(***************************************************************************)
\* the location events stored under tn
EventsOf(tn) == IF tn \in DOMAIN records THEN records[tn] ELSE <<>>

NotDeliveredEvent(e) == e.location # "Delivered"
DeliveredEvent(e) == e.location = "Delivered"

\* the event types of the broadcasts a request issued, in order
TypesOf(bcasts) == [i \in 1..Len(bcasts) |-> bcasts[i][1]]

\* slot r holds a PUT status request that was answered 200
StatusAnswered200(r) ==
    reqs[r].pc = "done" /\ reqs[r].code = 200 /\ reqs[r].kind = "status"

\* C3: a PUT status "Delivered" answered 200 has set the status to Delivered, has
\* appended exactly one event, labeled "Delivered", to the identifier's events, and has
\* issued exactly two broadcasts: location-update for that event, then status-change.
C3_IntoDelivered ==
    \A r \in Slots :
       LET rq == reqs[r]
           ev == EventsOf(rq.tn)
       IN  StatusAnswered200(r) /\ rq.arg = "Delivered" =>
             /\ trackings[rq.tn].status = "Delivered"
             /\ Len(ev) = Len(rq.events0) + 1
             /\ SubSeq(ev, 1, Len(rq.events0)) = rq.events0
             /\ ev[Len(ev)].location = "Delivered"
             /\ ev[Len(ev)].id = rq.rid
             /\ TypesOf(rq.bcasts) = <<"location-update", "status-change">>
             /\ rq.bcasts[1][2][1] = "Delivered"
             /\ rq.bcasts[1][2][3] = rq.rid
             /\ rq.bcasts[2][2] = <<"Delivered">>

\* a PUT status "Delivered" was answered 200 for a record that was not Delivered, and
\* a subscriber of the identifier got both frames
C3_Witness ==
    \E r \in Slots :
       /\ StatusAnswered200(r)
       /\ reqs[r].arg = "Delivered"
       /\ reqs[r].prevStatus = "Preparing"
       /\ \E h \in Registered(reqs[r].tn) :
             /\ Len(res[h].out) = 3
             /\ res[h].out[2][1] = "location-update"
             /\ res[h].out[3][1] = "status-change"

\* C4: a PUT status answered 200 that moves a record from Delivered to another status
\* has stored the new status and removed every "Delivered" event of the identifier
\* (and no other); it has broadcast delivery-removed iff an event was removed, and
\* then, last, status-change.
C4_AwayFromDelivered ==
    \A r \in Slots :
       LET rq == reqs[r]
           ev == EventsOf(rq.tn)
       IN  StatusAnswered200(r) /\ rq.prevStatus = "Delivered" /\ rq.arg # "Delivered" =>
             /\ trackings[rq.tn].status = rq.arg
             /\ ev = SelectSeq(rq.events0, NotDeliveredEvent)
             /\ TypesOf(rq.bcasts) =
                   IF Len(ev) < Len(rq.events0)
                   THEN <<"delivery-removed", "status-change">>
                   ELSE <<"status-change">>
             /\ rq.bcasts[Len(rq.bcasts)][2] = <<rq.arg>>

\* a Delivered record was moved to "In Transit": its "Delivered" event was removed and
\* both broadcasts were issued
C4_Witness ==
    \E r \in Slots :
       /\ StatusAnswered200(r)
       /\ reqs[r].prevStatus = "Delivered"
       /\ reqs[r].arg = "In Transit"
       /\ Len(reqs[r].events0) > Len(EventsOf(reqs[r].tn))
       /\ Len(reqs[r].bcasts) = 2

\* C5, as stated: the second of two consecutive PUT status "Delivered" requests for one
\* identifier, both with the valid credential and nothing in between, is answered 200
\* too and leaves exactly one "Delivered" event for the identifier.
C5_AsStated ==
    \A r \in Slots :
       LET rq == reqs[r]
       IN  /\ rq.pc = "done" /\ rq.kind = "status" /\ rq.arg = "Delivered"
           /\ rq.prev
           /\ rq.tn \in DOMAIN trackings /\ rq.key = trackings[rq.tn].update_key
           => /\ rq.code = 200
              /\ Len(SelectSeq(EventsOf(rq.tn), DeliveredEvent)) = 1

\* C6, as stated: a PUT status answered 200 that moves a record from a non-Delivered
\* status to a non-Delivered status issues exactly one broadcast, status-change, and
\* removes or appends no location event, whatever events the record holds.
C6_AsStated ==
    \A r \in Slots :
       LET rq == reqs[r]
       IN  StatusAnswered200(r) /\ rq.prevStatus # "Delivered" /\ rq.arg # "Delivered" =>
             /\ TypesOf(rq.bcasts) = <<"status-change">>
             /\ EventsOf(rq.tn) = rq.events0

(***************************************************************************)
(* Properties of the store operations on events and records (SpecEvents,   *)
(* SpecStores).                                                            *)
(***************************************************************************)
\* this step runs the store operation op on both stores
IsStoreStep(op) == nops' = nops + 1 /\ opRet'.op = op

TargetOf(op) == IF op = "updateEta" THEN "eta"
                ELSE IF op = "updateDestination" THEN "destination" ELSE "status"

\* row and other differ at most in the field f and in updated_at
SameBut(row, other, f) ==
    [row EXCEPT ![f] = "", !.updated_at = 0] = [other EXCEPT ![f] = "", !.updated_at = 0]

C28_AsStated ==
    \A r \in Slots :
       reqs[r].pc = "done" /\ reqs[r].ioFailed => reqs[r].code = 500

\* C29, as stated: no step of an exposed operation removes a record: an identifier
\* that has a record has one in the next state.
C29_AsStated ==
    [][\A tn \in DOMAIN trackings : tn \in DOMAIN trackings']_vars

\* the store mutation that a broadcast of this type reports
Reports(eventType) ==
    IF eventType = "eta-change" THEN "updateEta"
    ELSE IF eventType = "destination-change" THEN "updateDestination"
    ELSE IF eventType = "location-update" THEN "addTrackRecord"
    ELSE IF eventType = "delivery-removed" THEN "removeDeliveryRecords"
    ELSE "updateStatus"

\* C33: every broadcast a request has issued reports a store mutation that had returned
\* success to that request before, and a request answered 400, 401, 403 or 404 has
\* issued no broadcast.
C33_BroadcastAfterMutation ==
    \A r \in Slots :
       LET rq == reqs[r]
       IN  /\ \A i \in 1..Len(rq.bcasts) : Reports(rq.bcasts[i][1]) \in rq.committed
           /\ rq.pc # "done" => rq.bcasts = <<>>
           /\ rq.pc = "done" /\ rq.code \in {400, 401, 403, 404} => rq.bcasts = <<>>

\* a PUT status "Delivered" and a PUT status away from it were answered 200, the first
\* after a location-update and a status-change, the second after a delivery-removed
\* and a status-change
C33_Witness ==
    \E r, q \in Slots :
       /\ reqs[r].pc = "done" /\ reqs[r].code = 200
       /\ Len(reqs[r].bcasts) = 2
       /\ reqs[r].bcasts[1][1] = "delivery-removed"
       /\ reqs[r].bcasts[2][1] = "status-change"
       /\ reqs[q].pc = "done" /\ reqs[q].code = 200
       /\ Len(reqs[q].bcasts) = 2
       /\ reqs[q].bcasts[1][1] = "location-update"

\* C39, as stated: a mutating request answered with a success status has its mutation
\* in the store: trackings.json holds the record of a creation answered 201, and the
\* new eta of a PUT .../eta answered 200, also when a read or a write of a file fails.
C39_AsStated ==
    \A r \in Slots :
       LET rq == reqs[r]
       IN  /\ rq.pc = "done" /\ rq.kind = "create" /\ rq.code = 201 =>
                /\ HasTracking(trackings, rq.tn)
                /\ trackings[rq.tn].update_key = rq.key
                /\ trackings[rq.tn].destination = rq.body.destination
           /\ rq.pc = "done" /\ rq.kind = "eta" /\ rq.code = 200 =>
                /\ HasTracking(trackings, rq.tn)
                /\ trackings[rq.tn].eta = rq.arg

(***************************************************************************)
(* Properties of requests in flight at the same time (SpecConc,            *)
(* SpecWatched).                                                           *)
(***************************************************************************)
\* slot r runs the store call from in this step
StoreCall(r, from) ==
    /\ reqs[r].pc = from
    /\ reqs'[r].pc # from

\* the events of tn before and after this step
EventsBefore(tn) == ListOf(records, tn)
EventsAfter(tn) == ListOf(records', tn)

\* C31: no update of the file-backed store is lost when requests overlap: a step
\* other than a removeDeliveryRecords leaves the events of every identifier as they
\* were or appends one event; the eta, the destination and the status of a record
\* change only to the value of the request whose update runs in the step; and the event
\* of every location request answered 200 is in the list of its identifier.
C31_NoLostUpdate ==
    [][/\ \A tn \in TrackingNumbers :
            \/ \E r \in Slots : StoreCall(r, "call_removeDeliveryRecords")
            \/ EventsAfter(tn) = EventsBefore(tn)
            \/ /\ Len(EventsAfter(tn)) = Len(EventsBefore(tn)) + 1
               /\ SubSeq(EventsAfter(tn), 1, Len(EventsBefore(tn))) = EventsBefore(tn)
       /\ \A tn \in DOMAIN trackings :
            /\ tn \in DOMAIN trackings'
            /\ trackings'[tn].eta # trackings[tn].eta =>
                  \E r \in Slots : /\ StoreCall(r, "call_updateEta")
                                   /\ reqs[r].tn = tn
                                   /\ trackings'[tn].eta = reqs[r].arg
            /\ trackings'[tn].destination # trackings[tn].destination =>
                  \E r \in Slots : /\ StoreCall(r, "call_updateDestination")
                                   /\ reqs[r].tn = tn
                                   /\ trackings'[tn].destination = reqs[r].arg
            /\ trackings'[tn].status # trackings[tn].status =>
                  \E r \in Slots : /\ StoreCall(r, "call_updateStatus")
                                   /\ reqs[r].tn = tn
                                   /\ trackings'[tn].status = reqs[r].arg
       /\ \A r \in Slots :
            LET rq == reqs'[r]
            IN  rq.pc = "done" /\ rq.kind = "location" /\ rq.code = 200 =>
                  \E i \in 1..Len(EventsAfter(rq.tn)) :
                     /\ EventsAfter(rq.tn)[i].id = rq.rid
                     /\ EventsAfter(rq.tn)[i].location = rq.arg]_vars

\* two location requests for one identifier that were in flight at the same time are
\* both answered 200, and the list holds both events
C31_Witness ==
    /\ \A r \in Slots :
          /\ reqs[r].pc = "done"
          /\ reqs[r].kind = "location"
          /\ reqs[r].code = 200
          /\ reqs[r].tn = "T1"
          /\ ~reqs[r].alone
    /\ Len(ListOf(records, "T1")) = 2

\* C37: a step of a mutating request for one identifier leaves the record, the events
\* and the registry entry of every other identifier as they were, and writes nothing to
\* the subscribers of another identifier, also while a request for the other identifier
\* is in flight.
C37_OtherIdentifiersUnchanged ==
    [][\A r \in Slots :
          InFlight(r) /\ reqs'[r] # reqs[r] =>
             \A other \in TrackingNumbers \ {reqs[r].tn} :
                /\ HasTracking(trackings, other) = HasTracking(trackings', other)
                /\ HasTracking(trackings, other) => trackings'[other] = trackings[other]
                /\ EventsAfter(other) = EventsBefore(other)
                /\ (other \in DOMAIN sseClients) = (other \in DOMAIN sseClients')
                /\ other \in DOMAIN sseClients => sseClients'[other] = sseClients[other]
                /\ \A h \in Handles : sub[h] = other => res'[h] = res[h]]_vars

\* requests for two identifiers that were in flight at the same time have both been
\* answered 200, and a subscriber of one of them has received a frame of a broadcast
C37_Witness ==
    /\ \A r \in Slots : reqs[r].pc = "done" /\ reqs[r].code = 200 /\ ~reqs[r].alone
    /\ reqs[1].tn # reqs[2].tn
    /\ \E h \in Registered(reqs[2].tn) : Len(res[h].out) > 1

\* the list of tn holds an event labelled "Delivered"
HasDeliveredEvent(tn) ==
    \E i \in 1..Len(ListOf(records, tn)) : records[tn][i].location = "Delivered"

\* C38, as stated: whenever no request is in flight, a record has an event labelled
\* "Delivered" if and only if its status is Delivered, however the PUT status requests
\* for its identifier were interleaved at their awaits.
C38_AsStated ==
    Quiet => \A tn \in DOMAIN trackings :
                HasDeliveredEvent(tn) <=> trackings[tn].status = "Delivered"

(***************************************************************************)
(* Properties of the appended events while the clock advances (SpecClock). *)
(***************************************************************************)
\* the event of tn stored with this id, location and timestamp
StoredEvent(tn, id, location, timestamp) ==
    \E i \in 1..Len(ListOf(records, tn)) :
       /\ records[tn][i].id = id
       /\ records[tn][i].location = location
       /\ records[tn][i].timestamp = timestamp

\* C34, as stated: the location-update broadcast of an answered request carries the
\* location, the timestamp and the id of the event as it is stored.
C34_AsStated ==
    \A r \in Slots :
       reqs[r].pc = "done" =>
          \A i \in 1..Len(reqs[r].bcasts) :
             LET b == reqs[r].bcasts[i]
             IN  b[1] = "location-update" =>
                    StoredEvent(reqs[r].tn, b[2][3], b[2][1], b[2][2])

\* C36, as stated: every stored location event carries the internal id of the record
\* stored under its tracking number, and that record exists.
C36_AsStated ==
    \A tn \in DOMAIN records :
       \A i \in 1..Len(records[tn]) :
          /\ HasTracking(trackings, tn)
          /\ records[tn][i].tracking_id = trackings[tn].id

====
